---- MODULE Spec2Model ----
(***************************************************************************)
(* The spiral tile layout of SsrPerformanceShowdown                        *)
(* (bench/leptos/src/app.rs, lines 54-109): the sampling loop that walks   *)
(* an Archimedean spiral in f32 arithmetic and keeps the samples lying in  *)
(* the wrapper, and the rendering of one tile element per kept sample.      *)
(*                                                                         *)
(* An f32 is represented by the integer of its IEEE-754 bit pattern, with  *)
(* the sign carried by the integer's sign (sign-magnitude): 1.0 is         *)
(* 1065353216, -1.0 is -1065353216.  On this representation the order of   *)
(* the integers is the order of the floats, and +0.0 and -0.0 coincide.     *)
(* Addition and multiplication round to nearest, ties to even, exactly as  *)
(* IEEE-754 binary32 does, subnormals included.  NaN never arises in the    *)
(* program (no 0*inf, no inf-inf) and is not represented.                   *)
(***************************************************************************)
EXTENDS Integers, Sequences, FiniteSets, TLC

VARIABLES
    params,     \* [w, h, t]: wrapper_width, wrapper_height, cell_size (f32)
    requests,   \* requests for the route not yet served
    responses,  \* the distinct results the component has returned so far
    pc,         \* per worker: "idle", "loop", "render" or "done"
    angle,      \* per worker: the local `angle`
    radius,     \* per worker: the local `radius`
    tiles,      \* per worker: the local `tiles`, a sequence of <<x, y>>
    iter,       \* per worker: iterations of the while loop executed so far
    view        \* per worker: the rendered tile elements, <<left, top>> in 1/100 px

vars == <<params, requests, responses, pc, angle, radius, tiles, iter, view>>

(***************************************************************************)
(* Bounds of the model.                                                    *)
(***************************************************************************)
\* The loop is cut after MaxIter iterations: only runs that never end on
\* their own (radius does not grow) reach it.
MaxIter == 2410
\* Requests served in the two-worker specification.
MaxRequests == 3

(***************************************************************************)
(* f32::cos and f32::sin.  The angle only ever takes the values            *)
(* 0, 0+0.2, (0+0.2)+0.2, ... (f32 sums); AngleTab lists them, CosTab and  *)
(* SinTab hold cosf and sinf of each (glibc 2.36, x86-64), all as f32 bit  *)
(* patterns.                                                               *)
(***************************************************************************)
AngleTab ==
    <<0, 1045220557, 1053609165, 1058642330, 1061997773, 1065353216, 1067030938, 1068708660,
      1070386382, 1072064104, 1073741825, 1074580686, 1075419547, 1076258408, 1077097269, 1077936130,
      1078774991, 1079613852, 1080452713, 1081291574, 1082130433, 1082549863, 1082969293, 1083388723,
      1083808153, 1084227583, 1084647013, 1085066443, 1085485873, 1085905303, 1086324733, 1086744163,
      1087163593, 1087583023, 1088002453, 1088421883, 1088841313, 1089260743, 1089680173, 1090099603,
      1090519033, 1090728752, 1090938467, 1091148182, 1091357897, 1091567612, 1091777327, 1091987042,
      1092196757, 1092406472, 1092616187, 1092825902, 1093035617, 1093245332, 1093455047, 1093664762,
      1093874477, 1094084192, 1094293907, 1094503622, 1094713337, 1094923052, 1095132767, 1095342482,
      1095552197, 1095761912, 1095971627, 1096181342, 1096391057, 1096600772, 1096810487, 1097020202,
      1097229917, 1097439632, 1097649347, 1097859062, 1098068777, 1098278492, 1098488207, 1098697922,
      1098907637, 1099012500, 1099117358, 1099222216, 1099327074, 1099431932, 1099536790, 1099641648,
      1099746506, 1099851364, 1099956222, 1100061080, 1100165938, 1100270796, 1100375654, 1100480512,
      1100585370, 1100690228, 1100795086, 1100899944, 1101004802, 1101109660, 1101214518, 1101319376,
      1101424234, 1101529092, 1101633950, 1101738808, 1101843666, 1101948524, 1102053382, 1102158240,
      1102263098, 1102367956, 1102472814, 1102577672, 1102682530, 1102787388, 1102892246, 1102997104,
      1103101962, 1103206820, 1103311678, 1103416536, 1103521394, 1103626252, 1103731110, 1103835968,
      1103940826, 1104045684, 1104150542, 1104255400, 1104360258, 1104465116, 1104569974, 1104674832,
      1104779690, 1104884548, 1104989406, 1105094264, 1105199122, 1105303980, 1105408838, 1105513696,
      1105618554, 1105723412, 1105828270, 1105933128, 1106037986, 1106142844, 1106247702, 1106352560,
      1106457418, 1106562276, 1106667134, 1106771992, 1106876850, 1106981708, 1107086566, 1107191424,
      1107296269, 1107348698, 1107401127, 1107453556, 1107505985, 1107558414, 1107610843, 1107663272,
      1107715701, 1107768130, 1107820559, 1107872988, 1107925417, 1107977846, 1108030275, 1108082704,
      1108135133, 1108187562, 1108239991, 1108292420, 1108344849, 1108397278, 1108449707, 1108502136,
      1108554565, 1108606994, 1108659423, 1108711852, 1108764281, 1108816710, 1108869139, 1108921568,
      1108973997, 1109026426, 1109078855, 1109131284, 1109183713, 1109236142, 1109288571, 1109341000,
      1109393429, 1109445858, 1109498287, 1109550716, 1109603145, 1109655574, 1109708003, 1109760432,
      1109812861, 1109865290, 1109917719, 1109970148, 1110022577, 1110075006, 1110127435, 1110179864,
      1110232293, 1110284722, 1110337151, 1110389580, 1110442009, 1110494438, 1110546867, 1110599296,
      1110651725, 1110704154, 1110756583, 1110809012, 1110861441, 1110913870, 1110966299, 1111018728,
      1111071157, 1111123586, 1111176015, 1111228444, 1111280873, 1111333302, 1111385731, 1111438160,
      1111490589, 1111543018, 1111595447, 1111647876, 1111700305, 1111752734, 1111805163, 1111857592,
      1111910021, 1111962450, 1112014879, 1112067308, 1112119737, 1112172166, 1112224595, 1112277024,
      1112329453, 1112381882, 1112434311, 1112486740, 1112539169, 1112591598, 1112644027, 1112696456,
      1112748885, 1112801314, 1112853743, 1112906172, 1112958601, 1113011030, 1113063459, 1113115888,
      1113168317, 1113220746, 1113273175, 1113325604, 1113378033, 1113430462, 1113482891, 1113535320,
      1113587749, 1113640178, 1113692607, 1113745036, 1113797465, 1113849894, 1113902323, 1113954752,
      1114007181, 1114059610, 1114112039, 1114164468, 1114216897, 1114269326, 1114321755, 1114374184,
      1114426613, 1114479042, 1114531471, 1114583900, 1114636329, 1114688758, 1114741187, 1114793616,
      1114846045, 1114898474, 1114950903, 1115003332, 1115055761, 1115108190, 1115160619, 1115213048,
      1115265477, 1115317906, 1115370335, 1115422764, 1115475193, 1115527622, 1115580051, 1115632480,
      1115684886, 1115711100, 1115737314, 1115763528, 1115789742, 1115815956, 1115842170, 1115868384,
      1115894598, 1115920812, 1115947026, 1115973240, 1115999454, 1116025668, 1116051882, 1116078096,
      1116104310, 1116130524, 1116156738, 1116182952, 1116209166, 1116235380, 1116261594, 1116287808,
      1116314022, 1116340236, 1116366450, 1116392664, 1116418878, 1116445092, 1116471306, 1116497520,
      1116523734, 1116549948, 1116576162, 1116602376, 1116628590, 1116654804, 1116681018, 1116707232,
      1116733446, 1116759660, 1116785874, 1116812088, 1116838302, 1116864516, 1116890730, 1116916944,
      1116943158, 1116969372, 1116995586, 1117021800, 1117048014, 1117074228, 1117100442, 1117126656,
      1117152870, 1117179084, 1117205298, 1117231512, 1117257726, 1117283940, 1117310154, 1117336368,
      1117362582, 1117388796, 1117415010, 1117441224, 1117467438, 1117493652, 1117519866, 1117546080,
      1117572294, 1117598508, 1117624722, 1117650936, 1117677150, 1117703364, 1117729578, 1117755792,
      1117782006, 1117808220, 1117834434, 1117860648, 1117886862, 1117913076, 1117939290, 1117965504,
      1117991718, 1118017932, 1118044146, 1118070360, 1118096574, 1118122788, 1118149002, 1118175216,
      1118201430, 1118227644, 1118253858, 1118280072, 1118306286, 1118332500, 1118358714, 1118384928,
      1118411142, 1118437356, 1118463570, 1118489784, 1118515998, 1118542212, 1118568426, 1118594640,
      1118620854, 1118647068, 1118673282, 1118699496, 1118725710, 1118751924, 1118778138, 1118804352,
      1118830566, 1118856780, 1118882994, 1118909208, 1118935422, 1118961636, 1118987850, 1119014064,
      1119040278, 1119066492, 1119092706, 1119118920, 1119145134, 1119171348, 1119197562, 1119223776,
      1119249990, 1119276204, 1119302418, 1119328632, 1119354846, 1119381060, 1119407274, 1119433488,
      1119459702, 1119485916, 1119512130, 1119538344, 1119564558, 1119590772, 1119616986, 1119643200,
      1119669414, 1119695628, 1119721842, 1119748056, 1119774270, 1119800484, 1119826698, 1119852912,
      1119879126, 1119905340, 1119931554, 1119957768, 1119983982, 1120010196, 1120036410, 1120062624,
      1120088838, 1120115052, 1120141266, 1120167480, 1120193694, 1120219908, 1120246122, 1120272336,
      1120298550, 1120324764, 1120350978, 1120377192, 1120403406, 1120429620, 1120455834, 1120482048,
      1120508262, 1120534476, 1120560690, 1120586904, 1120613118, 1120639332, 1120665546, 1120691760,
      1120717974, 1120744188, 1120770402, 1120796616, 1120822830, 1120849044, 1120875258, 1120901472,
      1120927686, 1120953900, 1120980114, 1121006328, 1121032542, 1121058756, 1121084970, 1121111184,
      1121137398, 1121163612, 1121189826, 1121216040, 1121242254, 1121268468, 1121294682, 1121320896,
      1121347110, 1121373324, 1121399538, 1121425752, 1121451966, 1121478180, 1121504394, 1121530608,
      1121556822, 1121583036, 1121609250, 1121635464, 1121661678, 1121687892, 1121714106, 1121740320,
      1121766534, 1121792748, 1121818962, 1121845176, 1121871390, 1121897604, 1121923818, 1121950032,
      1121976246, 1122002460, 1122028674, 1122054888, 1122081102, 1122107316, 1122133530, 1122159744,
      1122185958, 1122212172, 1122238386, 1122264600, 1122290814, 1122317028, 1122343242, 1122369456,
      1122395670, 1122421884, 1122448098, 1122474312, 1122500526, 1122526740, 1122552954, 1122579168,
      1122605382, 1122631596, 1122657810, 1122684024, 1122710238, 1122736452, 1122762666, 1122788880,
      1122815094, 1122841308, 1122867522, 1122893736, 1122919950, 1122946164, 1122972378, 1122998592,
      1123024806, 1123051020, 1123077234, 1123103448, 1123129662, 1123155876, 1123182090, 1123208304,
      1123234518, 1123260732, 1123286946, 1123313160, 1123339374, 1123365588, 1123391802, 1123418016,
      1123444230, 1123470444, 1123496658, 1123522872, 1123549086, 1123575300, 1123601514, 1123627728,
      1123653942, 1123680156, 1123706370, 1123732584, 1123758798, 1123785012, 1123811226, 1123837440,
      1123863654, 1123889868, 1123916082, 1123942296, 1123968510, 1123994724, 1124020938, 1124047152,
      1124073366, 1124086526, 1124099633, 1124112740, 1124125847, 1124138954, 1124152061, 1124165168,
      1124178275, 1124191382, 1124204489, 1124217596, 1124230703, 1124243810, 1124256917, 1124270024,
      1124283131, 1124296238, 1124309345, 1124322452, 1124335559, 1124348666, 1124361773, 1124374880,
      1124387987, 1124401094, 1124414201, 1124427308, 1124440415, 1124453522, 1124466629, 1124479736,
      1124492843, 1124505950, 1124519057, 1124532164, 1124545271, 1124558378, 1124571485, 1124584592,
      1124597699, 1124610806, 1124623913, 1124637020, 1124650127, 1124663234, 1124676341, 1124689448,
      1124702555, 1124715662, 1124728769, 1124741876, 1124754983, 1124768090, 1124781197, 1124794304,
      1124807411, 1124820518, 1124833625, 1124846732, 1124859839, 1124872946, 1124886053, 1124899160,
      1124912267, 1124925374, 1124938481, 1124951588, 1124964695, 1124977802, 1124990909, 1125004016,
      1125017123, 1125030230, 1125043337, 1125056444, 1125069551, 1125082658, 1125095765, 1125108872,
      1125121979, 1125135086, 1125148193, 1125161300, 1125174407, 1125187514, 1125200621, 1125213728,
      1125226835, 1125239942, 1125253049, 1125266156, 1125279263, 1125292370, 1125305477, 1125318584,
      1125331691, 1125344798, 1125357905, 1125371012, 1125384119, 1125397226, 1125410333, 1125423440,
      1125436547, 1125449654, 1125462761, 1125475868, 1125488975, 1125502082, 1125515189, 1125528296,
      1125541403, 1125554510, 1125567617, 1125580724, 1125593831, 1125606938, 1125620045, 1125633152,
      1125646259, 1125659366, 1125672473, 1125685580, 1125698687, 1125711794, 1125724901, 1125738008,
      1125751115, 1125764222, 1125777329, 1125790436, 1125803543, 1125816650, 1125829757, 1125842864,
      1125855971, 1125869078, 1125882185, 1125895292, 1125908399, 1125921506, 1125934613, 1125947720,
      1125960827, 1125973934, 1125987041, 1126000148, 1126013255, 1126026362, 1126039469, 1126052576,
      1126065683, 1126078790, 1126091897, 1126105004, 1126118111, 1126131218, 1126144325, 1126157432,
      1126170539, 1126183646, 1126196753, 1126209860, 1126222967, 1126236074, 1126249181, 1126262288,
      1126275395, 1126288502, 1126301609, 1126314716, 1126327823, 1126340930, 1126354037, 1126367144,
      1126380251, 1126393358, 1126406465, 1126419572, 1126432679, 1126445786, 1126458893, 1126472000,
      1126485107, 1126498214, 1126511321, 1126524428, 1126537535, 1126550642, 1126563749, 1126576856,
      1126589963, 1126603070, 1126616177, 1126629284, 1126642391, 1126655498, 1126668605, 1126681712,
      1126694819, 1126707926, 1126721033, 1126734140, 1126747247, 1126760354, 1126773461, 1126786568,
      1126799675, 1126812782, 1126825889, 1126838996, 1126852103, 1126865210, 1126878317, 1126891424,
      1126904531, 1126917638, 1126930745, 1126943852, 1126956959, 1126970066, 1126983173, 1126996280,
      1127009387, 1127022494, 1127035601, 1127048708, 1127061815, 1127074922, 1127088029, 1127101136,
      1127114243, 1127127350, 1127140457, 1127153564, 1127166671, 1127179778, 1127192885, 1127205992,
      1127219099, 1127232206, 1127245313, 1127258420, 1127271527, 1127284634, 1127297741, 1127310848,
      1127323955, 1127337062, 1127350169, 1127363276, 1127376383, 1127389490, 1127402597, 1127415704,
      1127428811, 1127441918, 1127455025, 1127468132, 1127481239, 1127494346, 1127507453, 1127520560,
      1127533667, 1127546774, 1127559881, 1127572988, 1127586095, 1127599202, 1127612309, 1127625416,
      1127638523, 1127651630, 1127664737, 1127677844, 1127690951, 1127704058, 1127717165, 1127730272,
      1127743379, 1127756486, 1127769593, 1127782700, 1127795807, 1127808914, 1127822021, 1127835128,
      1127848235, 1127861342, 1127874449, 1127887556, 1127900663, 1127913770, 1127926877, 1127939984,
      1127953091, 1127966198, 1127979305, 1127992412, 1128005519, 1128018626, 1128031733, 1128044840,
      1128057947, 1128071054, 1128084161, 1128097268, 1128110375, 1128123482, 1128136589, 1128149696,
      1128162803, 1128175910, 1128189017, 1128202124, 1128215231, 1128228338, 1128241445, 1128254552,
      1128267659, 1128280766, 1128293873, 1128306980, 1128320087, 1128333194, 1128346301, 1128359408,
      1128372515, 1128385622, 1128398729, 1128411836, 1128424943, 1128438050, 1128451157, 1128464264,
      1128477371, 1128490478, 1128503585, 1128516692, 1128529799, 1128542906, 1128556013, 1128569120,
      1128582227, 1128595334, 1128608441, 1128621548, 1128634655, 1128647762, 1128660869, 1128673976,
      1128687083, 1128700190, 1128713297, 1128726404, 1128739511, 1128752618, 1128765725, 1128778832,
      1128791939, 1128805046, 1128818153, 1128831260, 1128844367, 1128857474, 1128870581, 1128883688,
      1128896795, 1128909902, 1128923009, 1128936116, 1128949223, 1128962330, 1128975437, 1128988544,
      1129001651, 1129014758, 1129027865, 1129040972, 1129054079, 1129067186, 1129080293, 1129093400,
      1129106507, 1129119614, 1129132721, 1129145828, 1129158935, 1129172042, 1129185149, 1129198256,
      1129211363, 1129224470, 1129237577, 1129250684, 1129263791, 1129276898, 1129290005, 1129303112,
      1129316219, 1129329326, 1129342433, 1129355540, 1129368647, 1129381754, 1129394861, 1129407968,
      1129421075, 1129434182, 1129447289, 1129460396, 1129473503, 1129486610, 1129499717, 1129512824,
      1129525931, 1129539038, 1129552145, 1129565252, 1129578359, 1129591466, 1129604573, 1129617680,
      1129630787, 1129643894, 1129657001, 1129670108, 1129683215, 1129696322, 1129709429, 1129722536,
      1129735643, 1129748750, 1129761857, 1129774964, 1129788071, 1129801178, 1129814285, 1129827392,
      1129840499, 1129853606, 1129866713, 1129879820, 1129892927, 1129906034, 1129919141, 1129932248,
      1129945355, 1129958462, 1129971569, 1129984676, 1129997783, 1130010890, 1130023997, 1130037104,
      1130050211, 1130063318, 1130076425, 1130089532, 1130102639, 1130115746, 1130128853, 1130141960,
      1130155067, 1130168174, 1130181281, 1130194388, 1130207495, 1130220602, 1130233709, 1130246816,
      1130259923, 1130273030, 1130286137, 1130299244, 1130312351, 1130325458, 1130338565, 1130351672,
      1130364779, 1130377886, 1130390993, 1130404100, 1130417207, 1130430314, 1130443421, 1130456528,
      1130469635, 1130482742, 1130495849, 1130508956, 1130522063, 1130535170, 1130548277, 1130561384,
      1130574491, 1130587598, 1130600705, 1130613812, 1130626919, 1130640026, 1130653133, 1130666240,
      1130679347, 1130692454, 1130705561, 1130718668, 1130731775, 1130744882, 1130757989, 1130771096,
      1130784203, 1130797310, 1130810417, 1130823524, 1130836631, 1130849738, 1130862845, 1130875952,
      1130889059, 1130902166, 1130915273, 1130928380, 1130941487, 1130954594, 1130967701, 1130980808,
      1130993915, 1131007022, 1131020129, 1131033236, 1131046343, 1131059450, 1131072557, 1131085664,
      1131098771, 1131111878, 1131124985, 1131138092, 1131151199, 1131164306, 1131177413, 1131190520,
      1131203627, 1131216734, 1131229841, 1131242948, 1131256055, 1131269162, 1131282269, 1131295376,
      1131308483, 1131321590, 1131334697, 1131347804, 1131360911, 1131374018, 1131387125, 1131400232,
      1131413339, 1131426446, 1131439553, 1131452660, 1131465767, 1131478874, 1131491981, 1131505088,
      1131518195, 1131531302, 1131544409, 1131557516, 1131570623, 1131583730, 1131596837, 1131609944,
      1131623051, 1131636158, 1131649265, 1131662372, 1131675479, 1131688586, 1131701693, 1131714800,
      1131727907, 1131741014, 1131754121, 1131767228, 1131780335, 1131793442, 1131806549, 1131819656,
      1131832763, 1131845870, 1131858977, 1131872084, 1131885191, 1131898298, 1131911405, 1131924512,
      1131937619, 1131950726, 1131963833, 1131976940, 1131990047, 1132003154, 1132016261, 1132029368,
      1132042475, 1132055582, 1132068689, 1132081796, 1132094903, 1132108010, 1132121117, 1132134224,
      1132147331, 1132160438, 1132173545, 1132186652, 1132199759, 1132212866, 1132225973, 1132239080,
      1132252187, 1132265294, 1132278401, 1132291508, 1132304615, 1132317722, 1132330829, 1132343936,
      1132357043, 1132370150, 1132383257, 1132396364, 1132409471, 1132422578, 1132435685, 1132448792,
      1132461899, 1132468543, 1132475097, 1132481651, 1132488205, 1132494759, 1132501313, 1132507867,
      1132514421, 1132520975, 1132527529, 1132534083, 1132540637, 1132547191, 1132553745, 1132560299,
      1132566853, 1132573407, 1132579961, 1132586515, 1132593069, 1132599623, 1132606177, 1132612731,
      1132619285, 1132625839, 1132632393, 1132638947, 1132645501, 1132652055, 1132658609, 1132665163,
      1132671717, 1132678271, 1132684825, 1132691379, 1132697933, 1132704487, 1132711041, 1132717595,
      1132724149, 1132730703, 1132737257, 1132743811, 1132750365, 1132756919, 1132763473, 1132770027,
      1132776581, 1132783135, 1132789689, 1132796243, 1132802797, 1132809351, 1132815905, 1132822459,
      1132829013, 1132835567, 1132842121, 1132848675, 1132855229, 1132861783, 1132868337, 1132874891,
      1132881445, 1132887999, 1132894553, 1132901107, 1132907661, 1132914215, 1132920769, 1132927323,
      1132933877, 1132940431, 1132946985, 1132953539, 1132960093, 1132966647, 1132973201, 1132979755,
      1132986309, 1132992863, 1132999417, 1133005971, 1133012525, 1133019079, 1133025633, 1133032187,
      1133038741, 1133045295, 1133051849, 1133058403, 1133064957, 1133071511, 1133078065, 1133084619,
      1133091173, 1133097727, 1133104281, 1133110835, 1133117389, 1133123943, 1133130497, 1133137051,
      1133143605, 1133150159, 1133156713, 1133163267, 1133169821, 1133176375, 1133182929, 1133189483,
      1133196037, 1133202591, 1133209145, 1133215699, 1133222253, 1133228807, 1133235361, 1133241915,
      1133248469, 1133255023, 1133261577, 1133268131, 1133274685, 1133281239, 1133287793, 1133294347,
      1133300901, 1133307455, 1133314009, 1133320563, 1133327117, 1133333671, 1133340225, 1133346779,
      1133353333, 1133359887, 1133366441, 1133372995, 1133379549, 1133386103, 1133392657, 1133399211,
      1133405765, 1133412319, 1133418873, 1133425427, 1133431981, 1133438535, 1133445089, 1133451643,
      1133458197, 1133464751, 1133471305, 1133477859, 1133484413, 1133490967, 1133497521, 1133504075,
      1133510629, 1133517183, 1133523737, 1133530291, 1133536845, 1133543399, 1133549953, 1133556507,
      1133563061, 1133569615, 1133576169, 1133582723, 1133589277, 1133595831, 1133602385, 1133608939,
      1133615493, 1133622047, 1133628601, 1133635155, 1133641709, 1133648263, 1133654817, 1133661371,
      1133667925, 1133674479, 1133681033, 1133687587, 1133694141, 1133700695, 1133707249, 1133713803,
      1133720357, 1133726911, 1133733465, 1133740019, 1133746573, 1133753127, 1133759681, 1133766235,
      1133772789, 1133779343, 1133785897, 1133792451, 1133799005, 1133805559, 1133812113, 1133818667,
      1133825221, 1133831775, 1133838329, 1133844883, 1133851437, 1133857991, 1133864545, 1133871099,
      1133877653, 1133884207, 1133890761, 1133897315, 1133903869, 1133910423, 1133916977, 1133923531,
      1133930085, 1133936639, 1133943193, 1133949747, 1133956301, 1133962855, 1133969409, 1133975963,
      1133982517, 1133989071, 1133995625, 1134002179, 1134008733, 1134015287, 1134021841, 1134028395,
      1134034949, 1134041503, 1134048057, 1134054611, 1134061165, 1134067719, 1134074273, 1134080827,
      1134087381, 1134093935, 1134100489, 1134107043, 1134113597, 1134120151, 1134126705, 1134133259,
      1134139813, 1134146367, 1134152921, 1134159475, 1134166029, 1134172583, 1134179137, 1134185691,
      1134192245, 1134198799, 1134205353, 1134211907, 1134218461, 1134225015, 1134231569, 1134238123,
      1134244677, 1134251231, 1134257785, 1134264339, 1134270893, 1134277447, 1134284001, 1134290555,
      1134297109, 1134303663, 1134310217, 1134316771, 1134323325, 1134329879, 1134336433, 1134342987,
      1134349541, 1134356095, 1134362649, 1134369203, 1134375757, 1134382311, 1134388865, 1134395419,
      1134401973, 1134408527, 1134415081, 1134421635, 1134428189, 1134434743, 1134441297, 1134447851,
      1134454405, 1134460959, 1134467513, 1134474067, 1134480621, 1134487175, 1134493729, 1134500283,
      1134506837, 1134513391, 1134519945, 1134526499, 1134533053, 1134539607, 1134546161, 1134552715,
      1134559269, 1134565823, 1134572377, 1134578931, 1134585485, 1134592039, 1134598593, 1134605147,
      1134611701, 1134618255, 1134624809, 1134631363, 1134637917, 1134644471, 1134651025, 1134657579,
      1134664133, 1134670687, 1134677241, 1134683795, 1134690349, 1134696903, 1134703457, 1134710011,
      1134716565, 1134723119, 1134729673, 1134736227, 1134742781, 1134749335, 1134755889, 1134762443,
      1134768997, 1134775551, 1134782105, 1134788659, 1134795213, 1134801767, 1134808321, 1134814875,
      1134821429, 1134827983, 1134834537, 1134841091, 1134847645, 1134854199, 1134860753, 1134867307,
      1134873861, 1134880415, 1134886969, 1134893523, 1134900077, 1134906631, 1134913185, 1134919739,
      1134926293, 1134932847, 1134939401, 1134945955, 1134952509, 1134959063, 1134965617, 1134972171,
      1134978725, 1134985279, 1134991833, 1134998387, 1135004941, 1135011495, 1135018049, 1135024603,
      1135031157, 1135037711, 1135044265, 1135050819, 1135057373, 1135063927, 1135070481, 1135077035,
      1135083589, 1135090143, 1135096697, 1135103251, 1135109805, 1135116359, 1135122913, 1135129467,
      1135136021, 1135142575, 1135149129, 1135155683, 1135162237, 1135168791, 1135175345, 1135181899,
      1135188453, 1135195007, 1135201561, 1135208115, 1135214669, 1135221223, 1135227777, 1135234331,
      1135240885, 1135247439, 1135253993, 1135260547, 1135267101, 1135273655, 1135280209, 1135286763,
      1135293317, 1135299871, 1135306425, 1135312979, 1135319533, 1135326087, 1135332641, 1135339195,
      1135345749, 1135352303, 1135358857, 1135365411, 1135371965, 1135378519, 1135385073, 1135391627,
      1135398181, 1135404735, 1135411289, 1135417843, 1135424397, 1135430951, 1135437505, 1135444059,
      1135450613, 1135457167, 1135463721, 1135470275, 1135476829, 1135483383, 1135489937, 1135496491,
      1135503045, 1135509599, 1135516153, 1135522707, 1135529261, 1135535815, 1135542369, 1135548923,
      1135555477, 1135562031, 1135568585, 1135575139, 1135581693, 1135588247, 1135594801, 1135601355,
      1135607909, 1135614463, 1135621017, 1135627571, 1135634125, 1135640679, 1135647233, 1135653787,
      1135660341, 1135666895, 1135673449, 1135680003, 1135686557, 1135693111, 1135699665, 1135706219,
      1135712773, 1135719327, 1135725881, 1135732435, 1135738989, 1135745543, 1135752097, 1135758651,
      1135765205, 1135771759, 1135778313, 1135784867, 1135791421, 1135797975, 1135804529, 1135811083,
      1135817637, 1135824191, 1135830745, 1135837299, 1135843853, 1135850407, 1135856961, 1135863515,
      1135870069, 1135876623, 1135883177, 1135889731, 1135896285, 1135902839, 1135909393, 1135915947,
      1135922501, 1135929055, 1135935609, 1135942163, 1135948717, 1135955271, 1135961825, 1135968379,
      1135974933, 1135981487, 1135988041, 1135994595, 1136001149, 1136007703, 1136014257, 1136020811,
      1136027365, 1136033919, 1136040473, 1136047027, 1136053581, 1136060135, 1136066689, 1136073243,
      1136079797, 1136086351, 1136092905, 1136099459, 1136106013, 1136112567, 1136119121, 1136125675,
      1136132229, 1136138783, 1136145337, 1136151891, 1136158445, 1136164999, 1136171553, 1136178107,
      1136184661, 1136191215, 1136197769, 1136204323, 1136210877, 1136217431, 1136223985, 1136230539,
      1136237093, 1136243647, 1136250201, 1136256755, 1136263309, 1136269863, 1136276417, 1136282971,
      1136289525, 1136296079, 1136302633, 1136309187, 1136315741, 1136322295, 1136328849, 1136335403,
      1136341957, 1136348511, 1136355065, 1136361619, 1136368173, 1136374727, 1136381281, 1136387835,
      1136394389, 1136400943, 1136407497, 1136414051, 1136420605, 1136427159, 1136433713, 1136440267,
      1136446821, 1136453375, 1136459929, 1136466483, 1136473037, 1136479591, 1136486145, 1136492699,
      1136499253, 1136505807, 1136512361, 1136518915, 1136525469, 1136532023, 1136538577, 1136545131,
      1136551685, 1136558239, 1136564793, 1136571347, 1136577901, 1136584455, 1136591009, 1136597563,
      1136604117, 1136610671, 1136617225, 1136623779, 1136630333, 1136636887, 1136643441, 1136649995,
      1136656549, 1136663103, 1136669657, 1136676211, 1136682765, 1136689319, 1136695873, 1136702427,
      1136708981, 1136715535, 1136722089, 1136728643, 1136735197, 1136741751, 1136748305, 1136754859,
      1136761413, 1136767967, 1136774521, 1136781075, 1136787629, 1136794183, 1136800737, 1136807291,
      1136813845, 1136820399, 1136826953, 1136833507, 1136840061, 1136846615, 1136853169, 1136859723,
      1136866277, 1136872831, 1136879385, 1136885939, 1136892493, 1136899047, 1136905601, 1136912155,
      1136918709, 1136925263, 1136931817, 1136938371, 1136944925, 1136951479, 1136958033, 1136964587,
      1136971141, 1136977695, 1136984249, 1136990803, 1136997357, 1137003911, 1137010465, 1137017019,
      1137023573, 1137030127, 1137036681, 1137043235, 1137049789, 1137056343, 1137062897, 1137069451,
      1137076005, 1137082559, 1137089113, 1137095667, 1137102221, 1137108775, 1137115329, 1137121883,
      1137128437, 1137134991, 1137141545, 1137148099, 1137154653, 1137161207, 1137167761, 1137174315,
      1137180869, 1137187423, 1137193977, 1137200531, 1137207085, 1137213639, 1137220193, 1137226747,
      1137233301, 1137239855, 1137246409, 1137252963, 1137259517, 1137266071, 1137272625, 1137279179,
      1137285733, 1137292287, 1137298841, 1137305395, 1137311949, 1137318503, 1137325057, 1137331611,
      1137338165, 1137344719, 1137351273, 1137357827, 1137364381, 1137370935, 1137377489, 1137384043,
      1137390597, 1137397151, 1137403705, 1137410259, 1137416813, 1137423367, 1137429921, 1137436475,
      1137443029, 1137449583, 1137456137, 1137462691, 1137469245, 1137475799, 1137482353, 1137488907,
      1137495461, 1137502015, 1137508569, 1137515123, 1137521677, 1137528231, 1137534785, 1137541339,
      1137547893, 1137554447, 1137561001, 1137567555, 1137574109, 1137580663, 1137587217, 1137593771,
      1137600325, 1137606879, 1137613433, 1137619987, 1137626541, 1137633095, 1137639649, 1137646203,
      1137652757, 1137659311, 1137665865, 1137672419, 1137678973, 1137685527, 1137692081, 1137698635,
      1137705189, 1137711743, 1137718297, 1137724851, 1137731405, 1137737959, 1137744513, 1137751067,
      1137757621, 1137764175, 1137770729, 1137777283, 1137783837, 1137790391, 1137796945, 1137803499,
      1137810053, 1137816607, 1137823161, 1137829715, 1137836269, 1137842823, 1137849377, 1137855931,
      1137862485, 1137869039, 1137875593, 1137882147, 1137888701, 1137895255, 1137901809, 1137908363,
      1137914917, 1137921471, 1137928025, 1137934579, 1137941133, 1137947687, 1137954241, 1137960795,
      1137967349, 1137973903, 1137980457, 1137987011, 1137993565, 1138000119, 1138006673, 1138013227,
      1138019781, 1138026335, 1138032889, 1138039443, 1138045997, 1138052551, 1138059105, 1138065659,
      1138072213, 1138078767, 1138085321, 1138091875, 1138098429, 1138104983, 1138111537, 1138118091,
      1138124645, 1138131199, 1138137753, 1138144307, 1138150861, 1138157415, 1138163969, 1138170523,
      1138177077, 1138183631, 1138190185, 1138196739, 1138203293, 1138209847, 1138216401, 1138222955,
      1138229509, 1138236063, 1138242617, 1138249171, 1138255725, 1138262279, 1138268833, 1138275387,
      1138281941, 1138288495, 1138295049, 1138301603, 1138308157, 1138314711, 1138321265, 1138327819,
      1138334373, 1138340927, 1138347481, 1138354035, 1138360589, 1138367143, 1138373697, 1138380251,
      1138386805, 1138393359, 1138399913, 1138406467, 1138413021, 1138419575, 1138426129, 1138432683,
      1138439237, 1138445791, 1138452345, 1138458899, 1138465453, 1138472007, 1138478561, 1138485115,
      1138491669, 1138498223, 1138504777, 1138511331, 1138517885, 1138524439, 1138530993, 1138537547,
      1138544101, 1138550655, 1138557209, 1138563763, 1138570317, 1138576871, 1138583425, 1138589979,
      1138596533, 1138603087, 1138609641, 1138616195, 1138622749, 1138629303, 1138635857, 1138642411,
      1138648965, 1138655519, 1138662073, 1138668627, 1138675181, 1138681735, 1138688289, 1138694843,
      1138701397, 1138707951, 1138714505, 1138721059, 1138727613, 1138734167, 1138740721, 1138747275,
      1138753829, 1138760383, 1138766937, 1138773491, 1138780045, 1138786599, 1138793153, 1138799707,
      1138806261, 1138812815, 1138819369, 1138825923, 1138832477, 1138839031, 1138845585, 1138852139,
      1138858693, 1138865247, 1138871801, 1138878355, 1138884909, 1138891463, 1138898017, 1138904571,
      1138911125, 1138917679, 1138924233, 1138930787, 1138937341, 1138943895, 1138950449, 1138957003,
      1138963557, 1138970111, 1138976665, 1138983219, 1138989773, 1138996327, 1139002881, 1139009435,
      1139015989, 1139022543, 1139029097, 1139035651, 1139042205, 1139048759, 1139055313, 1139061867,
      1139068421, 1139074975, 1139081529, 1139088083, 1139094637, 1139101191, 1139107745, 1139114299,
      1139120853, 1139127407, 1139133961, 1139140515, 1139147069, 1139153623, 1139160177, 1139166731,
      1139173285, 1139179839, 1139186393, 1139192947, 1139199501, 1139206055, 1139212609, 1139219163,
      1139225717, 1139232271, 1139238825, 1139245379, 1139251933, 1139258487, 1139265041, 1139271595,
      1139278149, 1139284703, 1139291257, 1139297811, 1139304365, 1139310919, 1139317473, 1139324027,
      1139330581, 1139337135, 1139343689, 1139350243, 1139356797, 1139363351, 1139369905, 1139376459,
      1139383013, 1139389567, 1139396121, 1139402675, 1139409229, 1139415783, 1139422337, 1139428891,
      1139435445, 1139441999, 1139448553, 1139455107, 1139461661, 1139468215, 1139474769, 1139481323,
      1139487877, 1139494431, 1139500985, 1139507539, 1139514093, 1139520647, 1139527201, 1139533755,
      1139540309, 1139546863, 1139553417, 1139559971, 1139566525, 1139573079, 1139579633, 1139586187,
      1139592741, 1139599295, 1139605849, 1139612403, 1139618957, 1139625511, 1139632065, 1139638619,
      1139645173, 1139651727, 1139658281, 1139664835, 1139671389, 1139677943, 1139684497, 1139691051,
      1139697605, 1139704159, 1139710713, 1139717267, 1139723821, 1139730375, 1139736929, 1139743483,
      1139750037, 1139756591, 1139763145, 1139769699, 1139776253, 1139782807, 1139789361, 1139795915,
      1139802469, 1139809023, 1139815577, 1139822131, 1139828685, 1139835239, 1139841793, 1139848347,
      1139854901, 1139861455, 1139868009, 1139874563, 1139881117, 1139887671, 1139894225, 1139900779,
      1139907333, 1139913887, 1139920441, 1139926995>>

CosTab ==
    <<1065353216, 1065018789, 1064028839, 1062422834, 1060264799, 1057640768, 1052346099, 1043205080,
      -1022309411, -1047046071, -1054150970, -1058449414, -1060947417, -1062952211, -1064383870, -1065185319,
      -1065324607, -1064796180, -1063621105, -1061846229, -1059542314, -1056637807, -1050499769, -1038463046,
      1035154053, 1049705500, 1055908183, 1059224368, 1061587825, 1063432543, 1064684978, 1065295200,
      1065238881, 1064518268, 1063162088, 1061224407, 1058782476, 1054902682, 1048618369, 1029505959,
      -1041562904, -1051567444, -1057288171, -1059962991, -1062183847, -1063862203, -1064931147, -1065348064,
      -1065096334, -1064185991, -1062653328, -1060559447, -1057987826, -1053117361, -1044840407, 999347570,
      1045421821, 1053390566, 1058110231, 1060662776, 1062733460, 1064239732, 1065121542, 1065343734,
      1064897451, 1063800484, 1062096567, 1059853628, 1057161087, 1051287963, 1040975634, -1031836763,
      -1048905125, -1055168664, -1058899778, -1061321344, -1063234795, -1064563846, -1065255514, -1065282224,
      -1064642911, -1063363061, -1061493689, -1059109326, -1055645450, -1049420588, -1033971103, 1039642138,
      1050781824, 1056895896, 1059654228, 1061936546, 1063686218, 1064833488, 1065332619, 1065163711,
      1064333498, 1062875079, 1060846596, 1058328920, 1053880237, 1046466695, 1017555869, -1043790401,
      -1052622655, -1057765479, -1060370969, -1062506227, -1064086126, -1065047681, -1065352557, -1064988600,
      -1063970319, -1062338310, -1060157638, -1057515238, -1052068305, -1042618169, 1025239147, 1047625122,
      1054421057, 1058569353, 1061047467, 1063028379, 1064433116, 1065205674, 1065315256, 1064757491,
      1063554616, 1061754586, 1059429164, 1056377505, 1050215838, 1037278066, -1036341052, -1049990923,
      -1056170896, -1059339131, -1061681413, -1063501221, -1064726003, -1065306930, -1065220842, -1064471172,
      -1063087807, -1061125898, -1058663660, -1054633904, -1048082308, -1027120956, 1042153206, 1051847837,
      1057415405, 1060072186, 1062270646, 1063923140, 1064963788, 1065351101, 1065069638, 1064130622,
      1062571487, 1060454391, 1057863739, 1052841012, 1044253384, -1012557490, -1046006862, -1053664966,
      -1058232899, -1060766017, -1062813155, -1064292697, -1065145660, -1065338038, -1064862161, -1063737001,
      -1062007415, -1059742357, -1057032129, -1051004949, -1040381966, 1033032050, 1049194021, 1055436112,
      1059017445, 1061418258, 1063307088, 1064608631, 1065270999, 1065267784, 1064599116, 1063291652,
      1061397517, 1058992225, 1055378727, 1049131977, 1032775134, -1040509673, -1051065881, -1057059920,
      -1059766365, -1062026683, -1063750760, -1064869863, -1065339376, -1065140581, -1064281403, -1062796096,
      -1060743874, -1058206554, -1053605974, -1045880974, -1010497155, 1044379904, 1052900626, 1057890533,
      1060477106, 1062589216, 1064142658, 1065075503, 1065350559, 1064956861, 1063910105, 1062252023,
      1060048716, 1057388024, 1051787438, 1042025948, -1027635533, -1048207210, -1054691994, -1058689367,
      -1061147242, -1063103937, -1064481445, -1065224848, -1065304509, -1064717252, -1063486489, -1061661288,
      -1059314414, -1056114251, -1049929324, -1036084665, 1037534223, 1050277266, 1056433874, 1059453695,
      1061774486, 1063569091, 1064765964, 1065317389, 1065201384, 1064422571, 1063012001, 1061025909,
      1058543474, 1054362721, 1047499945, 1024724379, -1042745245, -1052128502, -1057542466, -1060180910,
      -1062356698, -1063983090, -1064995245, -1065352812, -1065041534, -1064073823, -1062488258, -1060348051,
      -1057738526, -1052562826, -1043663670, 1018585882, 1046592335, 1053938997, 1058355098, 1060868530,
      1062891893, 1064344522, 1065168506, 1065330993, 1064825507, 1063672199, 1061917049, 1059630029,
      1056840026, 1050720708, 1039386437, -1034227847, -1049482475, -1055702572, -1059134366, -1061514209,
      -1063378243, -1064652154, -1065285155, -1065252009, -1064554038, -1063219069, -1061300322, -1058874292,
      -1055110791, -1048842652, -1031358049, 1041103885, 1051349070, 1057188910, 1059877609, 1062115745,
      1063814091, 1064904937, 1065344795, 1065116128, 1064228055, 1062715978, 1060640181, 1058083419,
      1053330757, 1045294631, 992151524, -1044967399, -1053176991, -1058014526, -1060581980, -1062670808,
      -1064197737, -1065101896, -1065347240, -1064923988, -1063849012, -1062165169, -1059939584, -1057260984,
      -1051507693, -1041437471, 1030011487, 1048679518, 1054959359, 1058807458, 1061245048, 1063177579,
      1064528008, 1065242501, 1065292573, 1064676229, 1063418038, 1061568161, 1059200342, 1055853348,
      1049646086, 1034907596, -1038708464, -1050558422, -1056691432, -1059565553, -1061864981, -1063634635,
      -1064803967, -1065326361, -1065180991, -1064373653, -1062936531, -1060926918, -1058424927, -1054095998,
      -1046928549, -1021346239, 1043323549, 1052402015, 1057665960, 1060286232, 1062439668, 1064040420,
      1065024673, 1065353190, 1065012873, 1064017290, 1062406130, 1060243623, 1057615979, 1052291293,
      1043089413, -1023246177, -1047159930, -1054204021, -1058472952, -1060967041, -1062967153, -1064393553,
      -1065189376, -1065322896, -1064788791, -1063608353, -1061828640, -1059520603, -1056587895, -1050445377,
      -1038236278, 1035380963, 1049760006, 1055958304, 1059246247, 1061605661, 1063445640, 1064692831,
      1065297514, 1065235584, 1064509509, 1063148235, 1061206029, 1058760319, 1054852601, 1048553071,
      1029062504, -1041672540, -1051619454, -1057311749, -1059983212, -1062199918, -1063873499, -1064937235,
      -1065348720, -1065091550, -1064175977, -1062638502, -1060540415, -1057965360, -1053067376, -1044734343,
      1002800860, 1045527286, 1053439978, 1058132300, 1060681338, 1062747790, 1064249274, 1065125933,
      1065342819, 1064891285, 1063789332, 1062080889, 1059834066, 1057138433, 1051238298, 1040871573,
      -1032046029, -1048955644, -1055215381, -1058920313, -1061338249, -1063247410, -1064571685, -1065258283,
      -1065279831, -1064635470, -1063350888, -1061477296, -1059089386, -1055600097, -1049371594, -1033768432,
      1039843409, 1050829792, 1056939618, 1059673107, 1061951708, 1063697077, 1064839636, 1065333834,
      1065159971, 1064324977, 1062862140, 1060829777, 1058308910, 1053835460, 1046371239, 1016775629,
      -1043886115, -1052667705, -1057785713, -1060388118, -1062519625, -1064095261, -1065052212, -1065352328,
      -1064983646, -1063960862, -1062324751, -1060140537, -1057495296, -1052024355, -1042525676, 1025612677,
      1047715675, 1054463126, 1058587955, 1061062911, 1063040068, 1064440606, 1065208691, 1065313704,
      1064751457, 1063544366, 1061740551, 1059411923, 1056338021, 1050172948, 1037099787, -1036518923,
      -1050033521, -1056209941, -1059356110, -1061695190, -1063511265, -1064731936, -1065308540, -1065218092,
      -1064464195, -1063076906, -1061111529, -1058646415, -1054595068, -1047999085, -1026779227, 1042237437,
      1051887681, 1057433406, 1060087561, 1062282801, 1063931610, 1064968259, 1065351419, 1065065817,
      1064122838, 1062560074, 1060439827, 1057846620, 1052803061, 1044173117, -1013860096, -1046086176,
      -1053702004, -1058249380, -1060779818, -1062823744, -1064299674, -1065148770, -1065337182, -1064857399,
      -1063728548, -1061995630, -1059727731, -1057015261, -1050968101, -1040305016, 1033186296, 1049231135,
      1055470314, 1059032419, 1061430525, 1063316177, 1064614202, 1065272855, 1065265877, 1064593547,
      1063282667, 1061385496, 1058977667, 1055345728, 1049096435, 1032628517, -1040582277, -1051100390,
      -1057075598, -1059779856, -1062037464, -1063758423, -1064874125, -1065340092, -1065137747, -1064275159,
      -1062786713, -1060731748, -1058192187, -1053573932, -1045812873, -1009387000, 1044447805, 1052932490,
      1057904797, 1060489146, 1062598571, 1064148977, 1065078556, 1065350251, 1064953229, 1063903319,
      1062242375, 1060036613, 1057373967, 1051756559, 1041961160, -1027896410, -1048270265, -1054721195,
      -1058702233, -1061157876, -1063111934, -1064486509, -1065226800, -1065303298, -1064712950, -1063479293,
      -1061651507, -1059302458, -1056086975, -1049899795, -1035962303, 1037655931, 1050306322, 1056460416,
      1059465192, 1061783767, 1063575807, 1064769869, 1065318353, 1065199392, 1064417729, 1063004526,
      1061016120, 1058531781, 1054336490, 1047443925, 1024495098, -1042801577, -1052155060, -1057554420,
      -1060191076, -1062364690, -1063988608, -1064998094, -1065352902, -1065038888, -1064068571, -1062480633,
      -1060338378, -1057727208, -1052537831, -1043610993, 1019011859, 1046644031, 1053963050, 1058365759,
      1060877414, 1062898665, 1064348934, 1065170405, 1065330330, 1064822332, 1063666665, 1061909398,
      1059620588, 1056818347, 1050697123, 1039288294, -1034325854, -1049505970, -1055724138, -1059143766,
      -1061521868, -1063383875, -1064655556, -1065286216, -1065250713, -1064550462, -1063213378, -1061292767,
      -1058865193, -1055090261, -1048820631, -1031177082, 1041148517, 1051370197, 1057198467, 1059885792,
      1062122245, 1063818668, 1064907432, 1065345134, 1065114323, 1064224202, 1062710255, 1060632838,
      1058074766, 1053311434, 1045253490, 989071725, -1045008577, -1053196350, -1058023205, -1060589311,
      -1062676500, -1064201563, -1065103704, -1065346956, -1064921625, -1063844664, -1062159009, -1059931858,
      -1057251999, -1051487923, -1041395908, 1030179209, 1048699831, 1054978210, 1058815776, 1061251928,
      1063182747, 1064531258, 1065243702, 1065291678, 1064673273, 1063413140, 1061561515, 1059192215,
      1055834776, 1049625937, 1034823909, -1038791907, -1050578390, -1056709712, -1059573484, -1061871387,
      -1063639261, -1064806628, -1065326951, -1065179487, -1064370115, -1062931100, -1060919810, -1058416426,
      -1054076886, -1046887630, -1021010388, 1043364919, 1052421571, 1057674783, 1060293749, 1062445578,
      1064044489, 1065026738, 1065353168, 1065010766, 1064013181, 1062400183, 1060236076, 1057607132,
      1052271706, 1043048013, -1023496082, -1047200809, -1054223097, -1058481428, -1060974117, -1062972547,
      -1064397050, -1065190836, -1065322262, -1064786088, -1063603688, -1061822199, -1059512643, -1056569573,
      -1050425382, -1038152796, 1035464620, 1049780129, 1055976835, 1059254347, 1061612272, 1063450499,
      1064695744, 1065298366, 1065234340, 1064506218, 1063143029, 1061199115, 1058751973, 1054833712,
      1048512400, 1028894744, -1041714078, -1051639194, -1057320711, -1059990908, -1062206043, -1063877807,
      -1064939555, -1065348960, -1065089700, -1064172111, -1062632773, -1060533053, -1057956657, -1053047984,
      -1044693131, 1004144731, 1045568392, 1053459267, 1058140927, 1060688605, 1062753406, 1064253016,
      1065127652, 1065342446, 1064888835, 1063784902, 1062074657, 1059826279, 1057129402, 1051218469,
      1040829960, -1032129847, -1048975911, -1055234153, -1058928577, -1061345062, -1063252500, -1064574849,
      -1065259395, -1065278847, -1064632429, -1063345911, -1061470582, -1059081202, -1055581442, -1049351395,
      -1033684687, 1039926767, 1050849704, 1056957809, 1059680979, 1061958043, 1063701623, 1064842210,
      1065334335, 1065158378, 1064321355, 1062856632, 1060822604, 1058300356, 1053816275, 1046330242,
      1016439713, -1043927422, -1052687195, -1057794487, -1060395571, -1062525461, -1064099247, -1065054189,
      -1065352217, -1064981451, -1063956671, -1062318731, -1060132929, -1057486402, -1052004704, -1042484217,
      1025780532, 1047756470, 1054482126, 1058596378, 1061069921, 1063045385, 1064444019, 1065210063,
      1065312980, 1064748667, 1063539621, 1061734040, 1059403906, 1056319612, 1050152899, 1037016229,
      -1036602512, -1050053593, -1056228388, -1059364153, -1061701732, -1063516045, -1064734763, -1065309303,
      -1065216758, -1064460820, -1063071623, -1061104549, -1058638016, -1054576101, -1047958327, -1026611399,
      1042278921, 1051907359, 1057442321, 1060095197, 1062288853, 1063935837, 1064970492, 1065351570,
      1065063879, 1064118888, 1062554271, 1060432401, 1057837868, 1052783601, 1044131837, -1014531971,
      -1046127208, -1053721222, -1058257956, -1060787021, -1062829285, -1064303333, -1065150401, -1065336720,
      -1064854862, -1063724037, -1061989326, -1059719885, -1057006185, -1050948214, -1040263357, 1033270064,
      1049251355, 1055489005, 1059040627, 1061437269, 1063321188, 1064617281, 1065273878, 1065264804,
      1064590420, 1063277611, 1061378713, 1058969427, 1055326992, 1049076189, 1032544720, -1040623911,
      -1051120245, -1057084649, -1059787669, -1062043728, -1063762888, -1064876613, -1065340504, -1065136067,
      -1064271453, -1062781129, -1060724509, -1058183582, -1053554675, -1045771799, -1008715085, 1044489046,
      1052951912, 1057913521, 1060496537, 1062604333, 1064152880, 1065080445, 1065350050, 1064950947,
      1063899046, 1062236283, 1060028943, 1057365025, 1051736846, 1041919646, -1028064202, -1048310974,
      -1054740119, -1058710602, -1061164819, -1063117174, -1064489837, -1065228084, -1065302485, -1064710074,
      -1063474469, -1061644926, -1059294383, -1056068480, -1049879693, -1035878675, 1037739448, 1050326341,
      1056478777, 1059473177, 1061790239, 1063580507, 1064772611, 1065319026, 1065197970, 1064414269,
      1062999166, 1061009073, 1058523329, 1054317447, 1047403082, 1024327214, -1042843004, -1052174675,
      -1057563288, -1060198650, -1062370668, -1063992753, -1065000239, -1065352963, -1065036862, -1064064539,
      -1062474755, -1060330889, -1057718407, -1052518305, -1043569649, 1019347741, 1046684984, 1053982195,
      1058374283, 1060884551, 1062904130, 1064352509, 1065171947, 1065329778, 1064819709, 1063662074,
      1061903023, 1059612682, 1056800106, 1050677179, 1039204887, -1034409567, -1049526141, -1055742747,
      -1059151918, -1061528544, -1063388807, -1064658550, -1065287151, -1065249551, -1064547250, -1063208245,
      -1061285916, -1058856898, -1055071444, -1048800338, -1031009397, 1041190102, 1051389993, 1057207472,
      1059893545, 1062128436, 1063823051, 1064909833, 1065345456, 1065112555, 1064220413, 1062704596,
      1060625534, 1058066110, 1053292106, 1045212343, 983696141, -1045049750, -1053215704, -1058031879,
      -1060596638, -1062682187, -1064205383, -1065105504, -1065346666, -1064919255, -1063840310, -1062152843,
      -1059924127, -1057243011, -1051468149, -1041354341, 1030346925, 1048720140, 1054997056, 1058824091,
      1061258804, 1063187909, 1064534500, 1065244897, 1065290777, 1064670311, 1063408236, 1061554865,
      1059184083, 1055816197, 1049605785, 1034740217, -1038875344, -1050598354, -1056727985, -1059581411,
      -1061877788, -1063643881, -1064809283, -1065327535, -1065177977, -1064366570, -1062925663, -1060912696,
      -1058407920, -1054057768, -1046846706, -1020674531, 1043406285, 1052441121, 1057683603, 1060301260,
      1062451483, 1064048551, 1065028796, 1065353139, 1065008652, 1064009066, 1062394232, 1060228525,
      1057598282, 1052252114, 1043006608, -1023663984, -1047241682, -1054242167, -1058489900, -1060981188,
      -1062977935, -1064400541, -1065192290, -1065321621, -1064783378, -1063599017, -1061815753, -1059504679,
      -1056551244, -1050405383, -1038069308, 1035548272, 1049800250, 1055995361, 1059262442, 1061618879,
      1063455353, 1064698652, 1065299211, 1065233089, 1064502921, 1063137817, 1061192197, 1058743624,
      1054814817, 1048471724, 1028726978, -1041755612, -1051658929, -1057329670, -1059998601, -1062212162,
      -1063882109, -1064941869, -1065349193, -1065087843, -1064168238, -1062627039, -1060525685, -1057947951,
      -1053028586, -1044651914, 1005488596, 1045609492, 1053478550, 1058149551, 1060695868, 1062759018,
      1064256753, 1065129365, 1065342067, 1064886379, 1063780467, 1062068420, 1059818488, 1057120368,
      1051198635, 1040788343, -1032213661, -1048996175, -1055252919, -1058936837, -1061351869, -1063257584,
      -1064578007, -1065260501, -1065277856, -1064629381, -1063340928, -1061463862, -1059073013, -1055562781,
      -1049331193, -1033600938, 1040010119, 1050869612, 1056970301, 1059688847, 1061964373, 1063706162,
      1064844779, 1065334830, 1065156780, 1064317726, 1062851119, 1060815425, 1058291799, 1053797084,
      1046289238, 1016103792, -1043968725, -1052706679, -1057803257, -1060403020, -1062531292, -1064103227,
      -1065056159, -1065352099, -1064979250, -1063952475, -1062312706, -1060125316, -1057477504, -1051985049,
      -1042442753, 1025948382, 1047797259, 1054501121, 1058604797, 1061076926, 1063050697, 1064447425,
      1065211429, 1065312250, 1064745871, 1063534870, 1061727524, 1059395884, 1056301196, 1050132846,
      1036932665, -1036686096, -1050073661, -1056246828, -1059372192, -1061708268, -1063520819, -1064737585,
      -1065310059, -1065215419, -1064457438, -1063066334, -1061097563, -1058629613, -1054557129, -1047917563,
      -1026443566, 1042320400, 1051927512, 1057451667, 1060103386, 1062295488, 1063940572, 1064973043,
      1065351737, 1065061554, 1064114064, 1062547045, 1060422976, 1057826549, 1052757965, 1044076460,
      -1015235568, -1046184237, -1053748395, -1058270290, -1060797551, -1062837518, -1064308853, -1065152894,
      -1065335985, -1064850828, -1063716765, -1061979015, -1059706863, -1056990906, -1050914255, -1040191216,
      1033417141, 1049287342, 1055522720, 1059055630, 1061449756, 1063330583, 1064623120, 1065275831,
      1065262691, 1064584225, 1063267484, 1061364968, 1058952535, 1055288135, 1049033716, 1032366923,
      -1040713245, -1051163322, -1057104501, -1059804990, -1062057761, -1063772991, -1064882292, -1065341433,
      -1065132107, -1064262662, -1062767763, -1060707014, -1058162581, -1053507222, -1045669611, -1007027396,
      1044593617, 1053001620, 1057936057, 1060515798, 1062619480, 1064163224, 1065085480, 1065349474,
      1064944681, 1063887242, 1062219317, 1060007410, 1057339713, 1051680578, 1041800167, -1028551079,
      -1048430061, -1054795922, -1058735477, -1061185614, -1063132983, -1064499942, -1065231985, -1065299927,
      -1064701057, -1063459254, -1061624030, -1059268559, -1056008907, -1049814474, -1035605379, 1038014342,
      1050392703, 1056540069, 1059500017, 1061812136, 1063596509, 1064781988, 1065321307, 1065192962,
      1064402071, 1062980167, 1060983945, 1058492997, 1054248676, 1047254636, 1023713108, -1042995502,
      -1052247337, -1057596340, -1060227051, -1062393216, -1064008464, -1065008394, -1065353136, -1065028946,
      -1064048749, -1062451627, -1060301260, -1057683387, -1052440168, -1043403259, 1020707292, 1046851696,
      1054060566, 1058409372, 1060914084, 1062926856, 1064367435, 1065178383, 1065327365, 1064808442,
      1063642304, 1061875448, 1059578319, 1056720411, 1050589592, 1038836690, -1034781032, -1049616104,
      -1055826164, -1059188644, -1061558757, -1063411226, -1064672190, -1065291371, -1065244082, -1064532208,
      -1063184133, -1061253607, -1058817604, -1054981892, -1048703303, -1030203795, 1041390828, 1051485989,
      1057251339, 1059931479, 1062158857, 1063844663, 1064921682, 1065346970, 1065103572, 1064201191,
      1062675808, 1060588241, 1058021726, 1053192580, 1044999553, -990118310, -1045264513, -1053317083,
      -1058077507, -1060635327, -1062712322, -1064225678, -1065115054, -1065344990, -1064906318, -1063816529,
      -1062119074, -1059881634, -1057193419, -1051358617, -1041123178, 1031283335, 1048833983, 1055103098,
      1058871054, 1061297773, 1063217254, 1064552963, 1065251643, 1065285437, 1064652998, 1063379542,
      1061515843, 1059136211, 1055706442, 1049486300, 1034242186, -1039373678, -1050718023, -1056837904,
      -1059629254, -1061916541, -1063671917, -1064825394, -1065330980, -1065168516, -1064344481, -1062891729,
      -1060868186, -1058354531, -1053937374, -1046588114, -1018545132, 1043669441, 1052565908, 1057740076,
      1060349506, 1062489507, 1064074752, 1065042036, 1065352792, 1064994628, 1063981826, 1062354767,
      1060178326, 1057539280, 1052121097, 1042728852, -1024793865, -1047517591, -1054371294, -1058547432,
      -1061029336, -1063014704, -1064424376, -1065202146, -1065317004, -1064764370, -1063566278, -1061770498,
      -1059448631, -1056421901, -1050263849, -1037476737, 1036143740, 1049943887, 1056127983, 1059320555,
      1061666410, 1063490328, 1064719587, 1065305174, 1065223740, 1064478533, 1063099264, 1061140929,
      1058681608, 1054674112, 1048168011, 1027470949, -1042067415, -1051807482, -1057397276, -1060056787,
      -1062258541, -1063914748, -1064959373, -1065350765, -1065073319, -1064138097, -1062582388, -1060468220,
      -1057879890, -1052876587, -1044328124, 1011352758, 1045934009, 1053631181, 1058217970, 1060753603,
      1062803695, 1064286505, 1065142910, 1065338764, 1064866258, 1063744233, 1062017424, 1059754683,
      1057046228, 1051035495, 1040445220, -1032906343, -1049164036, -1055408725, -1059005560, -1061408610,
      -1063300002, -1064604323, -1065269568, -1065269211, -1064603268, -1063298291, -1061406311, -1059002765,
      -1055402364, -1049157160, -1032877868, 1040459374, 1051042248, 1057049308, 1059757343, 1062019559,
      1063745757, 1064867112, 1065338912, 1065142346, 1064285252, 1062801804, 1060751149, 1058215050,
      1053624642, 1045920056, 1011124405, -1044342146, -1052883193, -1057882859, -1060470737, -1062584352,
      -1064139430, -1065073968, -1065350704, -1064958604, -1063913302, -1062256475, -1060054185, -1057394240,
      -1051800787, -1042053310, 1027527980, 1048181853, 1054680549, 1058684456, 1061143293, 1063101050,
      1064479669, 1065224182, 1065304904, 1064718615, 1063488694, 1061664178, 1059317814, 1056121703,
      1049937059, 1036115323, -1037505126, -1050270656, -1056428146, -1059451349, -1061772702, -1063567880,
      -1064765307, -1065317238, -1065201668, -1064423205, -1063012886, -1061026944, -1058544563, -1054364826,
      -1047503715, -1024736810, 1042742935, 1052127767, 1057542296, 1060180903, 1062356802, 1063983238,
      1064995361, 1065352817, 1065041352, 1064073386, 1062487512, 1060346964, 1057737086, 1052559275,
      1043655393, -1018659289, -1046602036, -1053943883, -1058357431, -1060870614, -1062893590, -1064345699,
      -1065169044, -1065330796, -1064824506, -1063670360, -1061914377, -1059626570, -1056831707, -1050711246,
      -1039345334, 1034270639, 1049493157, 1055712769, 1059138983, 1061518114, 1063381220, 1064654018,
      1065285757, 1065251251, 1064551873, 1063215511, 1061295446, 1058868236, 1055096705, 1048827087,
      1031226347, -1041137312, -1051365346, -1057196480, -1059884270, -1062121180, -1063818021, -1064907136,
      -1065345102, -1065114455, -1064224391, -1062710400, -1060632846, -1058074566, -1053310515, -1045250530,
      -988553922, 1045013547, 1053199158, 1058024675, 1060590732, 1062677742, 1064202491, 1065104185,
      1065346873, 1064920877, 1063843184, 1062156762, 1059928852, 1057248285, 1051479269, 1041376702,
      -1030260796, -1048710206, -1054988297, -1058820430, -1061255944, -1063185888, -1064533310, -1065244488,
      -1065291064, -1064671183, -1063409560, -1061556497, -1059185880, -1055819850, -1049609255, -1034752588,
      1038865046, 1050596377, 1056726621, 1059581013, 1061877622, 1063643874, 1064809344, 1065327563,
      1065177869, 1064366230, 1062925008, 1060911666, 1058406481, 1054054067, 1046837786, 1020593146,
      -1043417317, -1052446811, -1057686384, -1060303812, -1062453632, -1064050128, -1065029644, -1065353125,
      -1065007674, -1064007064, -1062391191, -1060224484, -1057593331, -1052240677, -1042981429, 1023770170,
      1047268525, 1054255155, 1058495875, 1060986346, 1062981996, 1064403255, 1065193453, 1065321086,
      1064781064, 1063594919, 1061809943, 1059497308, 1056533836, 1050385904, 1037985965, -1035633806,
      -1049821310, -1056015200, -1059271308, -1061626273, -1063460900, -1064702042, -1065300211, -1065231557,
      -1064498818, -1063131209, -1061183260, -1058732637, -1054789497, -1048416233, -1028494059, 1041814280,
      1051687282, 1057342756, 1060010022, 1062221393, 1063888700, 1064945464, 1065349549, 1065084844,
      1064161904, 1062617527, 1060513291, 1057933095, 1052995024, 1044579606, -1007255758, -1045683575,
      -1053513772, -1058165509, -1060709479, -1062769666, -1064263927, -1065132684, -1065341299, -1064881452,
      -1063771479, -1062055637, -1059802339, -1057101428, -1051156578, -1040699098, 1032395406, 1049040600,
      1055294508, 1058955339, 1061367278, 1063269207, 1064585293, 1065263061, 1065275488, 1064622078,
      1063328884, 1061447467, 1059052843, 1055516372, 1049280472, 1033388674, -1040205376, -1050921016,
      -1056993992, -1059709533, -1061981161, -1063718302, -1064851694, -1065336147, -1065152344, -1064307614,
      -1062835638, -1060795106, -1058267378, -1053741867, -1046170295, -1015121398, 1044090492, 1052764581,
      1057829526, 1060425503, 1062549020, 1064115409, 1065062216, 1065351690, 1064972288, 1063939138,
      1062293434, 1060100793, 1057448639, 1051920827, 1042306304, -1026504699, -1047933406, -1054564965,
      -1058633289, -1061100790, -1063068906, -1064459165, -1065216136, -1065309637, -1064735939, -1063517916,
      -1061704135, -1059366912, -1056234267, -1050059502, -1036625082, 1036995704, 1050148463, 1056315987,
      1059402522, 1061733075, 1063539033, 1064748390, 1065312926, 1065210132, 1064444108, 1063045395,
      1061069763, 1058595983, 1054480771, 1047752565, 1025760371, -1042490207, -1052008023, -1057488121,
      -1060134585, -1062320189, -1063957788, -1064982090, -1065352253, -1065053518, -1064097797, -1062523196,
      -1060392496, -1057790652, -1052678201, -1043907354, 1016611110, 1046352160, 1053827000, 1058305347,
      1060826964, 1062860115, 1064323733, 1065159463, 1065333982, 1064840332, 1063698196, 1061953112,
      1059674659, 1056942761, 1050832747, 1039853747, -1033760088, -1049370074, -1055599148, -1059089169,
      -1061477282, -1063350999, -1064635612, -1065279901, -1065258177, -1064571306, -1063246675, -1061337100,
      -1058918718, -1055211301, -1048950745, -1032023724, 1040883660, 1051244540, 1057141496, 1059836896,
      1062083306, 1063791156, 1064892353, 1065342989, 1065125096, 1064247363, 1062744786, 1060677276,
      1058127267, 1053428259, 1045501310, 1001918972, -1044762389, -1053081045, -1057971705, -1060545962,
      -1062642956, -1064179076, -1065093075, -1065348511, -1064935198, -1063869616, -1062194252, -1059975905,
      -1057303024, -1051599757, -1041630086, 1029238034, 1048586305, 1054873281, 1058769657, 1061213931,
      1063154309, 1064513426, 1065237090, 1065296448, 1064689134, 1063439362, 1061596962, 1059235394,
      1055933030, 1049732073, 1035262824, -1038356189, -1050474580, -1056615097, -1059532611, -1061838510,
      -1063615611, -1064793057, -1065323902, -1065186979, -1064387749, -1062958077, -1060954967, -1058458287,
      -1054170559, -1047087240, -1022640957, 1043165024, 1052327536, 1057632560, 1060257947, 1062417556,
      1064025278, 1065017011, 1065353214, 1065020480, 1064032077, 1062427414, 1060270472, 1057647251,
      1052360081, 1043233843, -1022082520, -1047019233, -1054138811, -1058444173, -1060943176, -1062949079,
      -1064381903, -1065184519, -1065324924, -1064797522, -1063623341, -1061849196, -1059545826, -1056645534,
      -1050507810, -1038494982, 1035123694, 1049698593, 1055902187, 1059221907, 1061585945, 1063431256,
      1064684262, 1065295004, 1065239131, 1064518871, 1063162942, 1061225407, 1058783518, 1054904669,
      1048620106, 1029516973, -1041561000, -1051566915, -1057288109, -1059963089, -1062184048, -1063862430,
      -1064931316, -1065348088, -1065096129, -1064185484, -1062652462, -1060558188, -1057986164, -1053113274,
      -1044830901, 999684293, 1045432939, 1053396168, 1058112909, 1060665177, 1062735429, 1064241121,
      1065122218, 1065343589, 1064896408, 1063798505, 1062093654, 1059849832, 1057156503, 1051277501,
      1040952847, -1031884338, -1048917035, -1055180071, -1058904966, -1061325759, -1063238198, -1064566030,
      -1065256312, -1065281522, -1064640654, -1063359262, -1061488436, -1059102769, -1055630156, -1049403653,
      -1033899336, 1039715121, 1050799628, 1056912500, 1059661561, 1061942567, 1063690626, 1064836040,
      1065333137, 1065162100, 1064329746, 1062869264, 1060838886, 1058319565, 1053858895, 1046420325,
      1017169685, -1043838659, -1052645787, -1057776057, -1060380096, -1062513485, -1064091162, -1065050224,
      -1065352431, -1064985733, -1063964751, -1062330194, -1060147233, -1057502908, -1052040696, -1042559144,
      1025481250, 1047684724, 1054449172, 1058581974, 1061058104, 1063036550, 1064438430, 1065207848,
      1065314126, 1064753027, 1063546922, 1061743901, 1059415853, 1056346597, 1050181801, 1037134648,
      -1036486084, -1050026124, -1056203593, -1059353538, -1061693257, -1063509969, -1064731238, -1065308370,
      -1065218354, -1064464780, -1063077693, -1061112399, -1058647257, -1054596507, -1048001183, -1026783775,
      1042237325, 1051888107, 1057433816, 1060088099, 1062283375, 1063932114, 1064968580, 1065351445,
      1065065445, 1064121983, 1062558676, 1060437856, 1057844083, 1052796946, 1044159138, -1014104004,
      -1046102073, -1053709918, -1058253121, -1060783136, -1062826432, -1064301538, -1065149641, -1065336925,
      -1064855922, -1063725811, -1061991652, -1059722587, -1057009090, -1050954093, -1040274656, 1033249386,
      1049246857, 1055485303, 1059039202, 1061436262, 1063320562, 1064616972, 1065273801, 1065264860,
      1064590506, 1063277626, 1061378568, 1058969050, 1055325678, 1049074275, 1032534757, -1040629876,
      -1051123573, -1057086386, -1059789359, -1062045235, -1063764071, -1064877332, -1065340632, -1065135497,
      -1064270107, -1062778966, -1060721529, -1058179830, -1053545810, -1045751891, -1008373068, 1044511042,
      1052962743, 1057918599, 1060501017, 1062607965, 1064155434, 1065081725, 1065349905, 1064949280,
      1063895826, 1062231544, 1060022792, 1057357637, 1051720079, 1041883327, -1028215065, -1048348564,
      -1054758051, -1058718736, -1061171734, -1063122518, -1064493309, -1065229449, -1065301588, -1064706850,
      -1063468947, -1061637237, -1059284754, -1056045980, -1049854752, -1035772889, 1037847114, 1050352633,
      1056503334, 1059484049, 1061799205, 1063587130, 1064776535, 1065319997, 1065195848, 1064409037,
      1062990937, 1060998088, 1058509950, 1054286848, 1047336470, 1024049355, -1042912565, -1052208084,
      -1057578604, -1060211913, -1062381278, -1064000203, -1065004140, -1065353058, -1065033047, -1064056866,
      -1062463436, -1060316290, -1057701039, -1052479308, -1043486091, 1020034651, 1046769720, 1054022264,
      1058392328, 1060899826, 1062915953, 1064360321, 1065175342, 1065328519, 1064813744, 1063651543,
      1061888255, 1059594185, 1056756993, 1050629566, 1039003778, -1034613412, -1049575738, -1055788945,
      -1059172350, -1061545429, -1063401395, -1064666247, -1065289554, -1065246463, -1064538693, -1063194463,
      -1061267370, -1058834250, -1055019626, -1048743974, -1030539675, 1041307577, 1051446382, 1057233335,
      1059915991, 1062146504, 1063835937, 1064916930, 1065346383, 1065107173, 1064208837, 1062687192,
      1060602911, 1058039096, 1053231336, 1045082007, -977763060, -1045182105, -1053278372, -1058060170,
      -1060620700, -1062700987, -1064218087, -1065111511, -1065345635, -1064911126, -1063825308, -1062131474,
      -1059897161, -1057211453, -1051398263, -1041206462, 1030947510, 1048793342, 1055065416, 1058854443,
      1061284055, 1063206975, 1064546533, 1065249320, 1065287312, 1064658997, 1063389425, 1061529216,
      1059152541, 1055743716, 1049526699, 1034409844, -1039206644, -1050678085, -1056801380, -1059613427,
      -1061903780, -1063662731, -1064820148, -1065329884, -1065171615, -1064351649, -1062902683, -1060882486,
      -1058371610, -1053975724, -1046670142, -1019217819, 1043586650, 1052526811, 1057722455, 1060334517,
      1062477746, 1064066689, 1065037993, 1065352928>>

SinTab ==
    <<0, 1045131257, 1053254103, 1058049129, 1060611238, 1062693540, 1064213021, 1065109103,
      1065346062, 1064914451, 1063831478, 1062140316, 1059908388, 1057224672, 1051427716, 1041269156,
      -1030691398, -1048761947, -1055035933, -1058841281, -1061273044, -1063198617, -1064541234, -1065247368,
      -1065288869, -1064664082, -1063397915, -1061540846, -1059166910, -1055776891, -1049563066, -1034562464,
      1039052904, 1050640922, 1056767021, 1059598376, 1061891511, 1063653799, 1064814985, 1065328775,
      1065174685, 1064358857, 1062913819, 1060897178, 1058389331, 1054015910, 1046756935, 1019936417,
      -1043497366, -1052484248, -1057703093, -1060317889, -1062464575, -1064057568, -1065033361, -1065353052,
      -1065003896, -1063999814, -1062380833, -1060211499, -1057578294, -1052207787, -1042912759, 1024045242,
      1047334660, 1054285626, 1058509240, 1060997356, 1062990273, 1064408540, 1065195614, 1065320118,
      1064777088, 1063588173, 1061800772, 1059486141, 1056508509, 1050358673, 1037873975, -1035744328,
      -1049847487, -1056038927, -1059281526, -1061634485, -1063466839, -1064705538, -1065301199, -1065230073,
      -1064494997, -1063125277, -1061175518, -1058723452, -1054769064, -1048373005, -1028318895, 1041856873,
      1051707154, 1057351609, 1060017479, 1062227210, 1063892706, 1064947568, 1065349743, 1065083197,
      1064158556, 1062612682, 1060507206, 1057926067, 1052979728, 1044547870, -1007760661, -1045713697,
      -1053527546, -1058171509, -1060714396, -1062773359, -1064266314, -1065133741, -1065341058, -1064880000,
      -1063768948, -1062052197, -1059798188, -1057096782, -1051146746, -1040679237, 1032433858, 1049049522,
      1055302424, 1058958671, 1061369898, 1063271068, 1064586389, 1065263420, 1065275172, 1064621176,
      1063327504, 1061445732, 1059050880, 1055512242, 1049276373, 1033373218, -1040212303, -1050923960,
      -1056995170, -1059710408, -1061981748, -1063718640, -1064851838, -1065336165, -1065152311, -1064307608,
      -1062835730, -1060795357, -1058267834, -1053743241, -1046173978, -1015157700, 1044085275, 1052761766,
      1057828099, 1060424156, 1062547861, 1064114547, 1065061756, 1065351725, 1064972894, 1063940365,
      1062295303, 1060103292, 1057451720, 1051927989, 1042322164, -1026437454, -1047916327, -1054556669,
      -1058629460, -1061097479, -1063066302, -1064457439, -1065215427, -1065310049, -1064737533, -1063520702,
      -1061708068, -1059371897, -1056246038, -1050072680, -1036681498, 1036937773, 1050134194, 1056302546,
      1059396521, 1061728081, 1063535305, 1064746145, 1065312327, 1065211279, 1064447030, 1063050049,
      1061076028, 1058603667, 1054498455, 1047791286, 1025922776, -1042449332, -1051988287, -1057479024,
      -1060126663, -1062313809, -1063953269, -1064979680, -1065352124, -1065055751, -1064102378, -1062530012,
      -1060401339, -1057801224, -1052702044, -1043958648, 1016187801, 1046299743, 1053802117, 1058294096,
      1060817396, 1062852666, 1064318767, 1065157248, 1065334683, 1064843996, 1063704751, 1061962366,
      1059686304, 1056967307, 1050862935, 1039981654, -1033630051, -1049338339, -1055569496, -1059076010,
      -1061466362, -1063342813, -1064630553, -1065278243, -1065260063, -1064576737, -1063255507, -1061349047,
      -1058933362, -1055244909, -1048987402, -1032176863, 1040806869, 1051207585, 1057124500, 1059822100,
      1062071349, 1063782577, 1064887563, 1065342253, 1065128520, 1064254885, 1062756179, 1060692148,
      1058145082, 1053468439, 1045587690, 1004767505, -1044674282, -1053039232, -1057952782, -1060529819,
      -1062630291, -1064170458, -1065088919, -1065349057, -1064940501, -1063879539, -1062208469, -1059993911,
      -1057324153, -1051646656, -1041729529, 1028833361, 1048497766, 1054827029, 1058749072, 1061196753,
      1063141281, 1064505133, 1065233936, 1065298635, 1064696649, 1063451980, 1061614247, 1059256717,
      1055982146, 1049785775, 1035487579, -1038130392, -1050420137, -1056564878, -1059510652, -1061820627,
      -1063602577, -1064785460, -1065322118, -1065191156, -1064397796, -1062973665, -1060975541, -1058483082,
      -1054226704, -1047208290, -1023525787, 1043040940, 1052268479, 1057605729, 1060234925, 1062399312,
      1064012579, 1065010456, 1065353164, 1065027039, 1064045084, 1062446443, 1060294849, 1057676075,
      1052424434, 1043370977, -1020961204, -1046881638, -1054074087, -1058415180, -1060918768, -1062930304,
      -1064369596, -1065179267, -1065327037, -1064807017, -1063639938, -1061872325, -1059574645, -1056712388,
      -1050581314, -1038804126, 1034811653, 1049622986, 1055832055, 1059191024, 1061560542, 1063412422,
      1064672840, 1065291547, 1065243877, 1064531733, 1063183503, 1061252936, 1058816994, 1054980970,
      1048702805, 1030203770, -1041389821, -1051485028, -1057250683, -1059930726, -1062158106, -1063844027,
      -1064921278, -1065346914, -1065103968, -1064202123, -1062677333, -1060590385, -1058024475, -1053199185,
      -1045014607, 988284511, 1045247464, 1053308604, 1058073499, 1060631768, 1062709427, 1064223647,
      1065114065, 1065345181, 1064907784, 1063819310, 1062123152, 1059886928, 1057199786, 1051373097,
      1041154607, -1031152526, -1048817659, -1055087505, -1058863979, -1061291764, -1063212627, -1064549992,
      -1065250543, -1065286354, -1064655995, -1063384598, -1061522846, -1059144960, -1055726863, -1049508924,
      -1034338113, 1039276080, 1050694202, 1056815676, 1059619430, 1061908465, 1063665993, 1064821949,
      1065330249, 1065170631, 1064349458, 1062899465, 1060878459, 1058367007, 1053965854, 1046650029,
      1019061046, -1043604939, -1052534972, -1057725919, -1060337282, -1062479773, -1064067981, -1065038592,
      -1065352911, -1064998408, -1063989216, -1062365565, -1060192185, -1057555719, -1052157933, -1042807644,
      1024470513, 1047437944, 1054333702, 1058530544, 1061015089, 1063003741, 1064417223, 1065199184,
      1065318452, 1064770271, 1063576495, 1061784715, 1059466362, 1056463106, 1050309254, 1037668162,
      -1035950057, -1049896851, -1056084267, -1059301276, -1061650544, -1063478587, -1064712530, -1065303179,
      -1065226989, -1064486996, -1063112702, -1061158893, -1058703459, -1054723967, -1048276227, -1027920982,
      1041955081, 1051753672, 1057372657, 1060035490, 1062241484, 1063902694, 1064952895, 1065350222,
      1065078833, 1064149549, 1062599415, 1060490229, 1057906075, 1052935334, 1044453844, -1009288603,
      -1045806858, -1053571113, -1058190927, -1060730688, -1062785896, -1064274616, -1065137502, -1065340152,
      -1064874490, -1063759077, -1062038382, -1059781000, -1057076924, -1051103298, -1040588374, 1032616246,
      1049093470, 1055342985, 1058976460, 1061384503, 1063281927, 1064593089, 1065265720, 1065273005,
      1064614654, 1063316911, 1061431513, 1059033621, 1055473051, 1049234096, 1033198563, -1040298916,
      -1050965189, -1057013932, -1059726582, -1061994708, -1063727887, -1064857028, -1065337115, -1065149009,
      -1064300210, -1062824556, -1060780873, -1058250636, -1053704819, -1046092185, -1013958487, 1044167072,
      1052800212, 1057845339, 1060438740, 1062559225, 1064122260, 1065065534, 1065351442, 1064968586,
      1063932230, 1062283688, 1060088680, 1057434712, 1051890563, 1042243513, -1026754650, -1047993117,
      -1054592291, -1058645186, -1061110507, -1063076133, -1064463701, -1065217897, -1065308652, -1064732350,
      -1063511965, -1061696148, -1059357288, -1056212643, -1050036461, -1036531164, 1037087551, 1050170012,
      1056335325, 1059410749, 1061739598, 1063543671, 1064751049, 1065313598, 1065208893, 1064441106,
      1063040847, 1061063938, 1058589189, 1054465909, 1047721650, 1025637259, -1042519604, -1052021478,
      -1057493994, -1060139423, -1062323870, -1063960249, -1064983325, -1065352313, -1065052502, -1064095845,
      -1062520480, -1060389209, -1057786998, -1052670559, -1043892164, 1016726437, 1046365236, 1053832651,
      1058307658, 1060828727, 1062861334, 1064324447, 1065159738, 1065333908, 1064840013, 1063697743,
      1061952636, 1059674260, 1056942282, 1050832708, 1039855616, -1033756168, -1049368636, -1055597366,
      -1059088187, -1061476313, -1063350160, -1064635025, -1065279687, -1065258446, -1064572149, -1063248155,
      -1061339247, -1058921524, -1055218131, -1048958612, -1032058303, 1040865479, 1051235394, 1057137110,
      1059832926, 1062079977, 1063788683, 1064890926, 1065342765, 1065126185, 1064249822, 1062748613,
      1060682403, 1058133563, 1053442803, 1045533306, 1002997661, -1044728308, -1053064537, -1057964086,
      -1060539337, -1062637663, -1064175411, -1065091280, -1065348756, -1064937575, -1063874130, -1062200816,
      -1059984339, -1057313062, -1051622345, -1041678624, 1029037937, 1048547115, 1054849836, 1058759097,
      1061205017, 1063147473, 1064509028, 1065235402, 1065297639, 1064693258, 1063446352, 1061606629,
      1059247433, 1055961018, 1049762953, 1035393215, -1038224053, -1050442449, -1056585213, -1059519437,
      -1061827697, -1063607670, -1064788396, -1065322804, -1065189590, -1064394065, -1062967943, -1060968077,
      -1058474193, -1054206815, -1047165917, -1023295355, 1043083350, 1052288425, 1057614684, 1060242518,
      1062405259, 1064016688, 1065012565, 1065353187, 1065024976, 1064041016, 1062440534, 1060287333,
      1057667253, 1052404879, 1043329607, -1021297056, -1046922557, -1054093200, -1058423682, -1060925877,
      -1062935736, -1064373135, -1065180771, -1065326448, -1064804357, -1063635313, -1061865919, -1059566715,
      -1056694109, -1050561346, -1038720684, 1034895341, 1049643136, 1055850629, 1059199152, 1061567188,
      1063417321, 1064675796, 1065292443, 1065242677, 1064528485, 1063178336, 1061246056, 1058808676,
      1054962120, 1048682492, 1030036049, -1041431385, -1051504798, -1057259668, -1059938453, -1062164267,
      -1063848376, -1064923642, -1065347199, -1065102161, -1064198298, -1062671642, -1060583054, -1058015797,
      -1053179827, -1044973430, 991757917, 1045288607, 1053327928, 1058082152, 1060639068, 1062715081,
      1064227432, 1065115828, 1065344853, 1064905378, 1063814921, 1062116956, 1059879171, 1057190779,
      1051353297, 1041113018, -1031320207, -1048837949, -1055106317, -1058872270, -1061298610, -1063217756,
      -1064553198, -1065251700, -1065285414, -1064652997, -1063379660, -1061516166, -1059136804, -1055708249,
      -1049488751, -1034254396, 1039359482, 1050714143, 1056833911, 1059627332, 1061914836, 1063670579,
      1064824567, 1065330795, 1065169083, 1064345878, 1062893996, 1060871318, 1058358480, 1053946705,
      1046609070, 1018725160, -1043646278, -1052554495, -1057734718, -1060344767, -1062485646, -1064072008,
      -1065040613, -1065352845, -1064996257, -1063985066, -1062359582, -1060184608, -1057546848, -1052138314,
      -1042766214, 1024638394, 1047478782, 1054352740, 1058538993, 1061022132, 1063009097, 1064420678,
      1065200601, 1065317773, 1064767524, 1063571790, 1061778239, 1059458373, 1056444740, 1050289232,
      1037584641, -1036033680, -1049916949, -1056102756, -1059309347, -1061657121, -1063483407, -1064715400,
      -1065303986, -1065225700, -1064483663, -1063107458, -1061151946, -1058695086, -1054705038, -1048235513,
      -1027753187, 1041996592, 1051773381, 1057381596, 1060043157, 1062247572, 1063906961, 1064955172,
      1065350417, 1065076939, 1064145641, 1062593649, 1060482835, 1057897347, 1052915908, 1044412599,
      -1009960514, -1045847927, -1053590366, -1058199529, -1060737923, -1062791475, -1064278317, -1065139177,
      -1065339735, -1064871996, -1063754607, -1062032114, -1059773184, -1057067871, -1051083440, -1040546737,
      1032700040, 1049113714, 1055361716, 1058984696, 1061391281, 1063286977, 1064596210, 1065266788,
      1065271977, 1064611570, 1063311895, 1061424764, 1059025409, 1055454355, 1049213874, 1033114791,
      -1040340573, -1050985073, -1057023005, -1059734425, -1062001007, -1063732393, -1064859559, -1065337571,
      -1065147373, -1064296546, -1062819010, -1060773667, -1058242056, -1053685597, -1046051149, -1013286608,
      1044208347, 1052819668, 1057854088, 1060446162, 1062565024, 1064126204, 1065067466, 1065351286,
      1064966348, 1063927998, 1062277631, 1060081040, 1057425794, 1051870881, 1042202025, -1026922475,
      -1048033869, -1054611253, -1058653582, -1061117483, -1063081411, -1064467072, -1065219224, -1065307884,
      -1064729517, -1063507180, -1061689602, -1059349242, -1056194191, -1050016385, -1036447570, 1037171105,
      1050190058, 1056353729, 1059418763, 1061746105, 1063548411, 1064753834, 1065314316, 1065207515,
      1064437688, 1063035525, 1061056924, 1058580763, 1054446903, 1047680849, 1025469401, -1042561060,
      -1052041124, -1057502885, -1060147028, -1062329885, -1063964434, -1064985514, -1065352418, -1065050520,
      -1064091854, -1062514639, -1060381752, -1057778221, -1052651066, -1043850853, 1017062350, 1046406228,
      1053851832, 1058316208, 1060835897, 1062866837, 1064328064, 1065161324, 1065333401, 1064837433,
      1063693193, 1061946296, 1059666384, 1056924086, 1050812793, 1039772252, -1033839910, -1049388831,
      -1055616015, -1059096368, -1061483023, -1063355132, -1064638061, -1065280666, -1065257329, -1064568980,
      -1063243061, -1061332430, -1058913256, -1055199354, -1048938342, -1031974483, 1040907089, 1051255219,
      1057146138, 1059840709, 1062086205, 1063793108, 1064893371, 1065343132, 1065124461, 1064246075,
      1062742991, 1060675132, 1058124932, 1053423510, 1045492195, 1001653786, -1044769515, -1053083925,
      -1057972786, -1060546696, -1062643387, -1064179273, -1065093124, -1065348510, -1064935249, -1063869817,
      -1062194686, -1059976639, -1057304097, -1051602601, -1041637082, 1029205692, 1048581890, 1054868720,
      1058767439, 1061211926, 1063152674, 1064512313, 1065236641, 1065296782, 1064690339, 1063441487,
      1061600014, 1059239329, 1055942481, 1049742826, 1035309554, -1038307531, -1050462441, -1056603530,
      -1059527393, -1061834134, -1063612330, -1064791094, -1065323433, -1065188124, -1064390563, -1062962545,
      -1060960997, -1058465714, -1054187735, -1047125033, -1022959539, 1043124747, 1052308008, 1057623527,
      1060250061, 1062411201, 1064020792, 1065014666, 1065353203, 1065022906, 1064036943, 1062434619,
      1060279813, 1057658427, 1052385320, 1043288233, -1021632902, -1046963471, -1054112307, -1058432181,
      -1060932981, -1062941163, -1064376668, -1065182269, -1065325852, -1064801690, -1063630682, -1061859509,
      -1059558780, -1056675824, -1050541375, -1038637235, 1034979024, 1049663281, 1055869196, 1059207277,
      1061573829, 1063422215, 1064678747, 1065293332, 1065241471, 1064525230, 1063173163, 1061239171,
      1058800354, 1054943264, 1048662177, 1029868322, -1041472945, -1051524564, -1057268650, -1059946176,
      -1062170422, -1063852719, -1064925999, -1065347477, -1065100349, -1064194467, -1062665945, -1060575719,
      -1058007116, -1053160464, -1044932248, 994445703, 1045329743, 1053347246, 1058090801, 1060646362,
      1062720730, 1064231210, 1065117585, 1065344519, 1064902965, 1063810527, 1062110754, 1059871410,
      1057181768, 1051333493, 1041071426, -1031487881, -1048858236, -1055125123, -1058880558, -1061305452,
      -1063222879, -1064556399, -1065252850, -1065284468, -1064649992, -1063374716, -1061509481, -1059128644,
      -1055689629, -1049468573, -1034170675, 1039442877, 1050734079, 1056852140, 1059635229, 1061921201,
      1063675159, 1064827178, 1065331334, 1065167529, 1064342291, 1062888520, 1060864172, 1058349948,
      1053927551, 1046568106, 1018389268, -1043687613, -1052574012, -1057743513, -1060352247, -1062491514,
      -1064076029, -1065042627, -1065352771, -1064994100, -1063980910, -1062353594, -1060177025, -1057537974,
      -1052118690, -1042724780, 1024806271, 1047519613, 1054371773, 1058547439, 1061029170, 1063014447,
      1064424126, 1065202010, 1065317088, 1064764771, 1063567079, 1061771758, 1059450380, 1056426367,
      1050269206, 1037501114, -1036117299, -1049937044, -1056121239, -1059317414, -1061663692, -1063488221,
      -1064718264, -1065304786, -1065224405, -1064480324, -1063102207, -1061144994, -1058686710, -1054686104,
      -1048194792, -1027585386, 1042038099, 1051793086, 1057390531, 1060050818, 1062253655, 1063911223,
      1064957442, 1065350605, 1065075038, 1064141726, 1062587877, 1060475436, 1057888616, 1052896476,
      1044371348, -1010632421, -1045888990, -1053609614, -1058208127, -1060745153, -1062797048, -1064282012,
      -1065140845, -1065339311, -1064869496, -1063750132, -1062025840, -1059765363, -1057058814, -1051063577,
      -1040505097, 1032783830, 1049133954, 1055380442, 1058992929, 1061398055, 1063292022, 1064599326,
      1065267849, 1065270941, 1064608479, 1063306872, 1061418010, 1059017193, 1055435653, 1049193648,
      1033031016, -1040382226, -1051004952, -1057032075, -1059742263, -1062007301, -1063736892, -1064862084,
      -1065338021, -1065145730, -1064292786, -1062813188, -1060765928, -1058232636, -1053664026, -1046004103,
      -1012500044, 1044257667, 1052843387, 1057864966, 1060455568, 1062572511, 1064131390, 1065070049,
      1065351062, 1064963225, 1063922002, 1062268907, 1060069854, 1057412520, 1051841112, 1042138276,
      -1027184406, -1048098457, -1054641762, -1058667292, -1061129042, -1063090281, -1064472810, -1065221508,
      -1065306520, -1064724458, -1063498530, -1061677616, -1059334317, -1056159525, -1049978188, -1036286508,
      1037334096, 1050229643, 1056390512, 1059434972, 1061759418, 1063558218, 1064759653, 1065315817,
      1065204537, 1064430249, 1063023825, 1061041342, 1058561844, 1054403781, 1047587299, 1025080514,
      -1042658092, -1052087579, -1057524120, -1060165369, -1062344531, -1063974718, -1064990932, -1065352655,
      -1065045464, -1064081608, -1062499517, -1060362271, -1057755087, -1052599228, -1043740014, 1017971577,
      1046518158, 1053904659, 1058339958, 1060855977, 1062882373, 1064338349, 1065165854, 1065331893,
      1064829846, 1063679731, 1061927405, 1059642735, 1056869024, 1050752061, 1039516074, -1034099225,
      -1049451843, -1055674643, -1059122274, -1061504424, -1063371097, -1064647864, -1065283818, -1065253603,
      -1064558424, -1063225999, -1061309453, -1058885203, -1055135208, -1048868622, -1031569644, 1041052157,
      1051324801, 1057178032, 1059868381, 1062108485, 1063809025, 1064902199, 1065344419, 1065118055,
      1064232130, 1062721969, 1060647784, 1058092277, 1053350072, 1045334758, 994707809, -1044929236,
      -1053159520, -1058006904, -1060575719, -1062666084, -1064194654, -1065100481, -1065347450, -1064925712,
      -1063852084, -1062169372, -1059944670, -1057266679, -1051519745, -1041461798, 1029917401, 1048668617,
      1054949702, 1058803398, 1061241858, 1063175308, 1064526659, 1065242031, 1065292899, 1064677237,
      1063419590, 1061570105, 1059202523, 1055857878, 1049650510, 1034923932, -1038694209, -1050555497,
      -1056689200, -1059564778, -1061864511, -1063634409, -1064803902, -1065326361, -1065180955, -1064373481,
      -1062936135, -1060926226, -1058423892, -1054093205, -1046921571, -1021280776, 1043332622, 1052406781,
      1057668326, 1060288431, 1062441541, 1064041809, 1065025429, 1065353182, 1065012000, 1064015488,
      1062403377, 1060239944, 1057611451, 1052280790, 1043066202, -1023426409, -1047184844, -1054216112,
      -1058478531, -1060971871, -1062970967, -1064396111, -1065190480, -1065322402, -1064786617, -1063604486,
      -1061823145, -1059513617, -1056571369, -1050426854, -1038156905, 1035462542, 1049780120, 1055977279,
      1059254738, 1061612753, 1063450971, 1064696098, 1065298490, 1065234127, 1064505577, 1063141888,
      1061197432, 1058749738, 1054828192, 1048499526, 1028837552, -1041729251, -1051646884, -1057324421,
      -1059994281, -1062208876, -1063879904, -1064940740, -1065349086, -1065088660, -1064169847, -1062629281,
      -1060528386, -1057950930, -1053034750, -1044664006, 1005127142, 1045599440, 1053474305, 1058147863,
      1060694623, 1062758193, 1064256295, 1065129197, 1065342095, 1064886500, 1063780578, 1062068424,
      1059818304, 1057119934, 1051197199, 1040784315, -1032223816, -1048999124, -1055256107, -1058938442,
      -1061353357, -1063258819, -1064578851, -1065260822, -1065277541, -1064628342, -1063339108, -1061461244,
      -1059069624, -1055554603, -1049321848, -1033560159, 1040052733, 1050880274, 1056975391, 1059693443,
      1061968224, 1063709034, 1064846464, 1065335163, 1065155646, 1064315071, 1062846952, 1060809826,
      1058284917, 1053781185, 1046254273, 1015809179, -1044005952, -1052724713, -1057811587, -1060410275,
      -1062537111, -1064107293, -1065058216, -1065351966, -1064976829, -1063947763, -1062305799, -1060116405,
      -1057466875, -1051961095, -1042391219, 1026161067, 1047849931, 1054526108, 1058616075, 1061086477,
      1063058065, 1064452229, 1065213380, 1065311171, 1064741703, 1063527680, 1061717509, 1059383363,
      1056272011, 1050100583, 1036796204, -1036824607, -1050107400, -1056278274, -1059386092, -1061719727,
      -1063529298, -1064742657, -1065311423, -1065212920, -1064451075, -1063056263, -1061084099, -1058613216,
      -1054519655, -1047836071, -1026104024, 1042405313, 1051967777, 1057469901, 1060118995, 1062307850,
      1063949193, 1064977580, 1065352009, 1065057550, 1064105943, 1062535132, 1060407746, 1057808608,
      1052718093, 1043991917, -1015923347, -1046268210, -1053787709, -1058287826, -1060812268, -1062848828,
      -1064316306, -1065156192, -1065334998, -1064845593, -1063707493, -1061966074, -1059690771, -1056972302,
      -1050873510, -1040024407, 1033588623, 1049328715, 1055560947, 1059072408, 1061463529, 1063340803,
      1064629379, 1065277879, 1065260448, 1064577779, 1063257092, 1061351045, 1058935635, 1055249730,
      1048992238, 1032195331, -1040798460, -1051203940, -1057123005, -1059820953, -1062070545, -1063782086,
      -1064887336, -1065342224, -1065128615, -1064255025, -1062756286, -1060692155, -1058144932, -1053467751,
      -1045585472, -1004670414, 1044678014, 1053041343, 1057953889, 1060530890, 1062631229, 1064171163,
      1065089291, 1065349006, 1064939953, 1063878441, 1062206796, 1059991667, 1057321376, 1051640177,
      1041715135, -1028894568, -1048513350, -1054834613, -1058752575, -1061199783, -1063143658, -1064506697,
      -1065234551, -1065298201, -1064695109, -1063449320, -1061610507, -1059251985, -1055970981, -1049773281,
      -1035434111, 1038185278, 1050433650, 1056577596, 1059516323, 1061825334, 1063606072, 1064787536,
      1065322618, 1065189984, 1064394923, 1062969134, 1060969466, 1058475650, 1054209629, 1047170950,
      1023328512, -1043080272, -1052287446, -1057614457, -1060242509, -1062405397, -1064016884, -1065012716,
      -1065353189, -1065024727, -1064040426, -1062439532, -1060285876, -1057665327, -1052400134, -1043318561,
      1021394918, 1046935477, 1054099700, 1058426781, 1060928641, 1062937980, 1064374682, 1065181464,
      1065326159, 1064802996, 1063632835, 1061862333, 1059562082, 1056682986, 1050548710, 1038665848,
      -1034952373, -1049657357, -1055864188, -1059205284, -1061572362, -1063421253, -1064678239, -1065293201,
      -1065241620, -1064525553, -1063173550, -1061239517, -1058800569, -1054943293, -1048661712, -1029860396,
      1041475922, 1051526461, 1057269731, 1059947294, 1062171463, 1063853559, 1064926512, 1065347543,
      1065099864, 1064193351, 1062664147, 1060573225, 1058003953, 1053152938, 1044915238, -995621283,
      -1045348737, -1053356636, -1058095216, -1060650262, -1062723887, -1064233412, -1065118650, -1065344303,
      -1064901377, -1063807529, -1062106375, -1059865742, -1057174968, -1051318068, -1041038020, 1031626627,
      1048875516, 1055141597, 1058888018, 1061311776, 1063227738, 1064559509, 1065253991, 1065283493,
      1064646839, 1063369414, 1061502150, 1059119499, 1055668312, 1049444984, 1034070770, -1039544413,
      -1050758834, -1056875215, -1059645417, -1061929565, -1063681284, -1064830730, -1065332072, -1065165322,
      -1064337126, -1062880509, -1060853546, -1058337056, -1053898146, -1046504232, -1017857418, 1043754060,
      1052605858, 1057758074, 1060364810, 1062501507, 1064082970, 1065046144, 1065352625, 1064990194,
      1063973301, 1062342492, 1060162789, 1057521101, 1052080906, 1042644007, -1025137566, -1047601171,
      -1054410245, -1058564712, -1061043730, -1063025639, -1064431416, -1065205011, -1065315579, -1064758712,
      -1063556612, -1061757210, -1059432251, -1056384262, -1050222833, -1037305704, 1036314923, 1049985014,
      1056165801, 1059337055, 1061679844, 1063500161, 1064725426, 1065306786, 1065221061, 1064471669,
      1063088490, 1061126674, 1058664441, 1054635321, 1048084611, 1027127372, -1042152378, -1051847804,
      -1057415553, -1060072453, -1062270969, -1063923444, -1064963990, -1065351119, -1065069396, -1064130053,
      -1062570543, -1060453048, -1057861994, -1052836777, -1044243641, 1012728393, 1046018052, 1053670561,
      1058235553, 1060768380, 1062815075, 1064294034, 1065146289, 1065337858, 1064861104, 1063735034,
      1062004549, 1059738644, 1057027666, 1050994803, 1040359945, -1033077872, -1049205454, -1055447026,
      -1059022390, -1061422447, -1063310294, -1064610661, -1065271698, -1065267049, -1064596900, -1063287971,
      -1061392450, -1058985916, -1055364033, -1049115725, -1032706320, 1040544632, 1051082920, 1057067854,
      1059773360, 1062032408, 1063754926, 1064872235, 1065339785, 1065138935, 1064277692, 1062790397,
      1060736349, 1058197447, 1053585237, 1045835985, 1009748746, -1044426604, -1052922978, -1057900737,
      -1060485887, -1062596170, -1064147445, -1065077860, -1065350318, -1064953956, -1063904576, -1062244021,
      -1060038498, -1057375946, -1051760442, -1041968327, 1027871533, 1048265222, 1054719312, 1058701604,
      1061157524, 1063111796, 1064486502, 1065226829, 1065303260, 1064712746, 1063478833, 1061650718,
      1059301293, 1056083855, 1049895913, 1035944116, -1037676132, -1050311653, -1056465753, -1059467708,
      -1061785964, -1063577517, -1064770934, -1065318631, -1065198772, -1064416134, -1063001923, -1061012526,
      -1058527264, -1054325849, -1047420105, -1024393090, 1042827759, 1052167935, 1057560457, 1060196417,
      1062369052, 1063991733, 1064999764, 1065352951, 1065037213, 1064065138, 1062475485, 1060331637,
      1057719070, 1052519301, 1043570751, -1019346980, -1046685890, -1053983085, -1058374887, -1060885230,
      -1062904783, -1064353023, -1065172207, -1065329671, -1064819138, -1063660964, -1061901327, -1059610386,
      -1056794364, -1050670415, -1039174569, 1034442034, 1049534455, 1055750870, 1059155675, 1061531782,
      1063391320, 1064660146, 1065287669, 1065248871, 1064545296, 1063204999, 1061281418, 1058851252,
      1055058178, 1048785537, 1030883024, -1041222452, -1051405873, -1057214914, -1059900140, -1062133853,
      -1063826991, -1064912047, -1065345756, -1065110827, -1064216627, -1062698808, -1060617889, -1058056839,
      -1053270936, -1045166279, -973628751, 1045097837, 1053238776, 1058042430, 1060605726, 1062689376,
      1064210302, 1065107861, 1065346268, 1064916015, 1063834259, 1062144129, 1059913016, 1057229876,
      1051438775, 1041291590, -1030604165, -1048751781, -1055026869, -1058837445, -1061270010, -1063196443,
      -1064539935, -1065246917, -1065289202, -1064665103, -1063399504, -1061542867, -1059169219, -1055781795,
      -1049567985, -1034581225, 1039035858, 1050637240, 1056764014, 1059597229, 1061890712, 1063653315,
      1064814759, 1065328737, 1065174755, 1064358953, 1062913857, 1060897086, 1058389053, 1054014907,
      1046753977, 1019905493, -1043501993, -1052486821, -1057704427, -1060319174, -1062465701, -1064058421,
      -1065033832, -1065353040, -1065003320, -1063998614, -1062378983, -1060209004, -1057575197, -1052200544,
      -1042896638, 1024113917, 1047352181, 1054294175, 1058513203, 1061000801, 1062993002, 1064410372,
      1065196399, 1065319743, 1064775485, 1063585326, 1061796720, 1059480982, 1056496278, 1050344937,
      1037815002, -1035805050, -1049862484, -1056053096, -1059287862, -1061639771, -1063470806, -1064707959,
      -1065301904, -1065228959, -1064492032, -1063120506, -1061169066, -1058715519, -1054750777, -1048332913,
      -1028150544, 1041899293, 1051727661, 1057361077, 1060025743, 1062233889, 1063897471, 1064950161,
      1065349985, 1065081001, 1064153936, 1062605751, 1060498177, 1057915245, 1052955276, 1044495185,
      -1008631450, -1045767688, -1053553217, -1058183140, -1060724314, -1062781115, -1064271534, -1065136145,
      -1065340475, -1064876377, -1063762355, -1062042828, -1059786355, -1057082907, -1051115939, -1040613866,
      1032566981, 1049082061, 1055332884, 1058972219, 1061381177, 1063279571, 1064591709, 1065265273,
      1065273408, 1064615788, 1063318636, 1061433669, 1059036045, 1055478116, 1049239082, 1033217174,
      -1040290676, -1050961741, -1057012580, -1059725605, -1061994076, -1063727545, -1064856897, -1065337102,
      -1065149014, -1064300131, -1062824300, -1060780366, -1058249823, -1053702528, -1046086294, -1013845637,
      1044175011, 1052804429, 1057847449, 1060440711, 1062560906, 1064123500, 1065066189, 1065351386,
      1064967720, 1063930488, 1062281047, 1060085162, 1057430387, 1051880539, 1042221371, -1026848311,
      -1048016855, -1054603799, -1058650486, -1061115082, -1063079723, -1064466076, -1065218865, -1065308075,
      -1064730148, -1063508128, -1061690739, -1059350444, -1056196497, -1050018404, -1036453938, 1037166778,
      1050189509, 1056353673, 1059418935, 1061746402, 1063548744, 1064754096, 1065314401, 1065207317,
      1064437115, 1063034503, 1061055406, 1058578733, 1054441863, 1047669033, 1025416700, -1042575085,
      -1052048250, -1057506326, -1060150156, -1062332505, -1063966359, -1064986573, -1065352470, -1065049460,
      -1064089626, -1062511237, -1060377226, -1057772681, -1052638289, -1043822771, 1017298857, 1046436086,
      1053866269, 1058322851, 1060841641, 1062871378, 1064331134, 1065162707, 1065332940, 1064835044,
      1063688874, 1061940127, 1059658530, 1056905499, 1050791967, 1039683061, -1033931536, -1049411417,
      -1055637324, -1059105913, -1061491013, -1063361171, -1064641818, -1065281894, -1065255878, -1064564807,
      -1063236235, -1061323134, -1058901784, -1055172847, -1048909238, -1031852103, 1040968845, 1051285122,
      1057159972, 1059852822, 1062096045, 1063800202, 1064897343, 1065343725, 1065121550, 1064239675,
      1062733263, 1060662377, 1058109587, 1053388745, 1045417126, 999167509, -1044846743, -1053120725,
      -1057989507, -1060561014, -1062654659, -1064186963, -1065096832, -1065347988, -1064930416, -1063860766,
      -1062181686, -1059960124, -1057284658, -1051559318, -1041545021, 1029581477, 1048627922, 1054911925,
      1058786722, 1061228059, 1063164936, 1064520128, 1065239601, 1065294668, 1064683133, 1063429379,
      1061583396, 1059218786, 1055895052, 1049690849, 1035091518, -1038527076, -1050515493, -1056652571,
      -1059548881, -1061851665, -1063625126, -1064798552, -1065325158, -1065183947, -1064380549, -1062946996,
      -1060940448, -1058440908, -1054131467, -1047003504, -1021953376, 1043249756, 1052367605, 1057650647,
      1060273367, 1062429692, 1064033647, 1065021280, 1065353211, 1065016207, 1064023703, 1062415274,
      1060255049, 1057629161, 1052320008, 1043149107, -1022770096, -1047102964, -1054177899, -1058461550,
      -1060957692, -1062960155, -1064389098, -1065187546, -1065323663, -1064792022, -1063613822, -1061836037,
      -1059529553, -1056608056, -1050466894, -1038324090, 1035294997, 1049739814, 1055940160, 1059238512,
      1061599508, 1063441234, 1064690258, 1065296779, 1065236615, 1064512164, 1063152311, 1061211275,
      1058766450, 1054866020, 1048578487, 1029173526, -1041646061, -1051607350, -1057306472, -1059978867,
      -1062196610, -1063871276, -1064936093, -1065348606, -1065092367, -1064177592, -1062640755, -1060543132,
      -1057968360, -1053073589, -1044746543, 1002435752>>

(***************************************************************************)
(* IEEE-754 binary32 arithmetic on bit patterns.                           *)
(***************************************************************************)
RECURSIVE BitLen(_)
BitLen(n) == IF n = 0 THEN 0 ELSE 1 + BitLen(n \div 2)

Abs(v) == IF v < 0 THEN -v ELSE v

Sgn(v) == IF v < 0 THEN -1 ELSE 1

\* The positive infinity of f32 (exponent field 255, fraction 0).
F32Inf == 255 * 8388608

\* Significand and exponent: the value of v is Sgn(v) * Mant(v) * 2^Expo(v).
Mant(v) ==
    LET b == Abs(v)
    IN  IF b \div 8388608 = 0 THEN b % 8388608 ELSE (b % 8388608) + 8388608

Expo(v) ==
    LET b == Abs(v)
    IN  IF b \div 8388608 = 0 THEN -149 ELSE (b \div 8388608) - 150

\* The f32 nearest to n * 2^e (st: some nonzero bits lie below n's last
\* bit), ties to even; n < 2^30, and n has at least 26 bits when st.
RoundPack(n, e, st) ==
    IF n = 0 \/ e + BitLen(n) < -150 THEN 0
    ELSE LET len  == BitLen(n)
             te   == IF e + len - 24 > -149 THEN e + len - 24 ELSE -149
             s    == te - e
             q    == IF s > 0 THEN n \div (2 ^ s) ELSE n * (2 ^ (-s))
             r    == IF s > 0 THEN n % (2 ^ s) ELSE 0
             half == IF s > 0 THEN 2 ^ (s - 1) ELSE 1
             up   == s > 0 /\ (r > half \/ (r = half /\ (st \/ q % 2 = 1)))
             m    == IF up THEN q + 1 ELSE q
             m2   == IF m = 16777216 THEN 8388608 ELSE m
             te2  == IF m = 16777216 THEN te + 1 ELSE te
         IN  IF m2 < 8388608 THEN m2
             ELSE IF te2 + 150 >= 255 THEN F32Inf
             ELSE (te2 + 150) * 8388608 + (m2 - 8388608)

\* a * b: the 48-bit product of the significands is formed in 12-bit limbs.
F32Mul(a, b) ==
    LET ma  == Mant(a)
        mb  == Mant(b)
        a1  == ma \div 4096
        a0  == ma % 4096
        b1  == mb \div 4096
        b0  == mb % 4096
        mid == a1 * b0 + a0 * b1
        lof == a0 * b0 + (mid % 4096) * 4096
        hi  == a1 * b1 + (mid \div 4096) + (lof \div 16777216)
        lo  == lof % 16777216
        lp  == IF hi = 0 THEN 0 ELSE 24 + BitLen(hi)
        d   == IF lp > 29 THEN lp - 29 ELSE 0
        n   == IF hi = 0 THEN lo ELSE hi * (2 ^ (24 - d)) + (lo \div (2 ^ d))
        st  == hi # 0 /\ lo % (2 ^ d) # 0
    IN  IF Abs(a) = F32Inf \/ Abs(b) = F32Inf THEN Sgn(a) * Sgn(b) * F32Inf
        ELSE Sgn(a) * Sgn(b) * RoundPack(n, Expo(a) + Expo(b) + d, st)

\* a + b for Expo(a) >= Expo(b): b is aligned to a with four guard bits and
\* a sticky bit.
AddOrdered(a, b) ==
    LET d   == Expo(a) - Expo(b)
        A   == Mant(a) * 16
        B   == IF d <= 4 THEN Mant(b) * (2 ^ (4 - d))
               ELSE IF d - 4 >= 25 THEN 0 ELSE Mant(b) \div (2 ^ (d - 4))
        st  == IF d <= 4 THEN FALSE
               ELSE IF d - 4 >= 25 THEN Mant(b) # 0
               ELSE Mant(b) % (2 ^ (d - 4)) # 0
        e   == Expo(a) - 4
    IN  IF Sgn(a) = Sgn(b) THEN Sgn(a) * RoundPack(A + B, e, st)
        ELSE IF st THEN Sgn(a) * RoundPack(A - B - 1, e, TRUE)
        ELSE IF A >= B THEN Sgn(a) * RoundPack(A - B, e, FALSE)
        ELSE Sgn(b) * RoundPack(B - A, e, FALSE)

F32Add(a, b) ==
    IF Abs(a) = F32Inf THEN a
    ELSE IF Abs(b) = F32Inf THEN b
    ELSE IF Expo(a) >= Expo(b) THEN AddOrdered(a, b) ELSE AddOrdered(b, a)

F32Sub(a, b) == F32Add(a, -b)

\* a / 2.0: in IEEE arithmetic the same correctly rounded value as a * 0.5
\* (1056964608 is 0.5).
F32Div2(a) == F32Mul(a, 1056964608)

\* f32::min (no NaN here).
F32Min(a, b) == IF a < b THEN a ELSE b

\* format!("{v:.2}"): the decimal with two fractional digits nearest to v,
\* ties to even, given as the number of hundredths.
Fmt2(v) ==
    LET n  == Mant(v) * 100
        sh == -Expo(v)
        q  == IF sh <= 0 THEN n * (2 ^ (-sh))
              ELSE IF sh >= 31 THEN 0 ELSE n \div (2 ^ sh)
        r  == IF sh <= 0 THEN 0 ELSE IF sh >= 31 THEN n ELSE n % (2 ^ sh)
        up == IF sh <= 0 \/ sh >= 32 THEN FALSE
              ELSE IF sh = 31 THEN n > 1073741824
              ELSE r > 2 ^ (sh - 1) \/ (r = 2 ^ (sh - 1) /\ q % 2 = 1)
    IN  Sgn(v) * (IF up THEN q + 1 ELSE q)

\* The row of AngleTab holding a (the last row not above a).
RECURSIVE RowSearch(_, _, _)
RowSearch(a, lo, hi) ==
    IF lo >= hi THEN lo
    ELSE LET mid == (lo + hi + 1) \div 2
         IN  IF AngleTab[mid] <= a THEN RowSearch(a, mid, hi)
             ELSE RowSearch(a, lo, mid - 1)

TabLen == Len(AngleTab)

CosF32(a) == CosTab[RowSearch(a, 1, TabLen)]

SinF32(a) == SinTab[RowSearch(a, 1, TabLen)]

(***************************************************************************)
(* The constants of SsrPerformanceShowdown, as f32 bit patterns.           *)
(***************************************************************************)
WrapperWidth == 1148190720    \* 960.0
WrapperHeight == 1144258560   \* 720.0
CellSize == 1092616192        \* 10.0
AngularStep == 1045220557     \* 0.2
RadialGrowth == 1014350479    \* 0.015

Input(w, h, t) == [w |-> w, h |-> h, t |-> t]

Reference == Input(WrapperWidth, WrapperHeight, CellSize)

\* The inputs of the layout: the program's own, and others covering the
\* cases of the contract.  20.0 is 1101004800, 40.0 is 1109393408.
Inputs ==
    { Reference,
      Input(1101004800, 1101004800, 1092511334),    \* 20 x 20, tile 9.9
      Input(1101004800, 1101004800, 1092616192),    \* 20 x 20, tile 10
      Input(1109393408, 1101004800, 1092616192),    \* 40 x 20, tile 10
      Input(1101004800, 1101004800, 1093664768),    \* 20 x 20, tile 11
      Input(1101004800, 1101004800, 1101004800),    \* 20 x 20, tile 20
      Input(1101004800, 1101004800, 1106247680),    \* 20 x 20, tile 30
      Input(-1101004800, 1101004800, 1092616192),   \* -20 x 20, tile 10
      Input(1101004800, 0, 1092616192),             \* 20 x 0, tile 10
      Input(1101004800, 1101004800, 0),             \* 20 x 20, tile 0
      Input(1101004800, 1101004800, -1065353216),   \* 20 x 20, tile -1
      Input(1101004800, 1101004800, 1) }            \* 20 x 20, tile 2^-149

\* The inputs of the two-worker specification (short runs).
SmallInputs ==
    { Input(1101004800, 1101004800, 1092511334),    \* 20 x 20, tile 9.9
      Input(1101004800, 1101004800, 1100480512) }   \* 20 x 20, tile 19

(***************************************************************************)
(* The layout, expression by expression.                                   *)
(***************************************************************************)
CenterXFull(p) == p.w

CenterX(p) == F32Div2(p.w)

CenterYFull(p) == p.h

CenterY(p) == F32Div2(p.h)

\* The loop runs while radius < Limit.
Limit(p) == F32Div2(F32Min(p.w, p.h))

SampleX(p, a, r) == F32Add(CenterX(p), F32Mul(CosF32(a), r))

SampleY(p, a, r) == F32Add(CenterY(p), F32Mul(SinF32(a), r))

InBoundsNoTile(p, x, y) == x >= 0 /\ x <= p.w /\ y >= 0 /\ y <= p.h

InBoundsPlusTile(p, x, y) ==
    /\ x >= 0 /\ x <= F32Add(p.w, p.t)
    /\ y >= 0 /\ y <= F32Add(p.h, p.t)

InBounds(p, x, y) ==
    /\ x >= 0 /\ x <= F32Sub(p.w, p.t)
    /\ y >= 0 /\ y <= F32Sub(p.h, p.t)

PushTileDedup(ts, x, y) ==
    IF \E i \in 1..Len(ts) : ts[i] = <<x, y>> THEN ts ELSE Append(ts, <<x, y>>)

PushTile(ts, x, y) == Append(ts, <<x, y>>)

NextAngle(a) == F32Add(a, AngularStep)

NextRadiusSwapped(p, r) == F32Add(r, F32Mul(p.t, AngularStep))

NextRadiusAbs(p, r) == F32Add(r, F32Mul(Abs(p.t), RadialGrowth))

NextRadiusDown(p, r) == F32Sub(r, F32Mul(p.t, RadialGrowth))

\* step = cell_size; radius += step * 0.015
NextRadius(p, r) == F32Add(r, F32Mul(p.t, RadialGrowth))

StaleTiles(w) == tiles[w]

\* let mut tiles = Vec::new()
NewTiles(w) == <<>>

\* style=format!("left: {x:.2}px; top: {y:.2}px")
TileStyle(t) == <<Fmt2(t[1]), Fmt2(t[2])>>

RenderTilesReversed(ts) == [i \in 1..Len(ts) |-> TileStyle(ts[Len(ts) + 1 - i])]

\* tiles.into_iter().map(|(x, y)| view! { <div class="tile" style=.../> })
RenderTiles(ts) == [i \in 1..Len(ts) |-> TileStyle(ts[i])]

(***************************************************************************)
(* The component, one action per step.                                     *)
(***************************************************************************)
\* A worker picks up a request and enters the component: the locals are
\* initialised.
Call(w) ==
    /\ pc[w] \in {"idle", "done"}
    /\ requests > 0
    /\ requests' = requests - 1
    /\ angle' = [angle EXCEPT ![w] = 0]
    /\ radius' = [radius EXCEPT ![w] = 0]
    /\ tiles' = [tiles EXCEPT ![w] = NewTiles(w)]
    /\ iter' = [iter EXCEPT ![w] = 0]
    /\ view' = [view EXCEPT ![w] = <<>>]
    /\ pc' = [pc EXCEPT ![w] = "loop"]
    /\ UNCHANGED <<params, responses>>

\* One iteration of the while loop.
Step(w) ==
    /\ pc[w] = "loop"
    /\ radius[w] < Limit(params)
    /\ iter[w] < MaxIter
    /\ LET x == SampleX(params, angle[w], radius[w])
           y == SampleY(params, angle[w], radius[w])
       IN  tiles' = [tiles EXCEPT ![w] =
                        IF InBounds(params, x, y) THEN PushTile(@, x, y) ELSE @]
    /\ angle' = [angle EXCEPT ![w] = NextAngle(@)]
    /\ radius' = [radius EXCEPT ![w] = NextRadius(params, @)]
    /\ iter' = [iter EXCEPT ![w] = @ + 1]
    /\ UNCHANGED <<params, requests, responses, pc, view>>

\* The loop condition fails.
Exit(w) ==
    /\ pc[w] = "loop"
    /\ ~(radius[w] < Limit(params))
    /\ pc' = [pc EXCEPT ![w] = "render"]
    /\ UNCHANGED <<params, requests, responses, angle, radius, tiles, iter, view>>

\* The tiles are mapped to elements and the view is returned.
Render(w) ==
    /\ pc[w] = "render"
    /\ view' = [view EXCEPT ![w] = RenderTiles(tiles[w])]
    /\ responses' = responses \cup {[tiles |-> tiles[w], view |-> RenderTiles(tiles[w])]}
    /\ pc' = [pc EXCEPT ![w] = "done"]
    /\ UNCHANGED <<params, requests, angle, radius, tiles, iter>>

Next ==
    \/ \E w \in DOMAIN pc : Call(w)
    \/ \E w \in DOMAIN pc : Step(w)
    \/ \E w \in DOMAIN pc : Exit(w)
    \/ \E w \in DOMAIN pc : Render(w)

InitWorkers(ws) ==
    /\ responses = {}
    /\ pc = [w \in ws |-> "idle"]
    /\ angle = [w \in ws |-> 0]
    /\ radius = [w \in ws |-> 0]
    /\ tiles = [w \in ws |-> <<>>]
    /\ iter = [w \in ws |-> 0]
    /\ view = [w \in ws |-> <<>>]

\* One worker serving one request, for every input.
Init ==
    /\ params \in Inputs
    /\ requests = 1
    /\ InitWorkers({1})

Spec == Init /\ [][Next]_vars

\* Two workers serving MaxRequests requests for the same input.
InitTwo ==
    /\ params \in SmallInputs
    /\ requests = MaxRequests
    /\ InitWorkers({1, 2})

SpecTwo == InitTwo /\ [][Next]_vars

(***************************************************************************)
(* Properties.                                                             *)
(***************************************************************************)
Positive(p) == p.w > 0 /\ p.h > 0 /\ p.t > 0

\* The worker is about to take a sample: the loop condition holds.
Sampling(w) == pc[w] = "loop" /\ radius[w] < Limit(params)

\* C1: every position in the output sequence, at every point of the loop and
\* for every input, satisfies 0 <= x <= width - tile_size and
\* 0 <= y <= height - tile_size (the differences as the code computes them,
\* in f32).
C1_EmittedInBounds ==
    LET maxX == F32Sub(params.w, params.t)
        maxY == F32Sub(params.h, params.t)
    IN  \A w \in DOMAIN pc : \A i \in 1..Len(tiles[w]) :
            /\ 0 <= tiles[w][i][1] /\ tiles[w][i][1] <= maxX
            /\ 0 <= tiles[w][i][2] /\ tiles[w][i][2] <= maxY

\* The run 20 x 20 with tile size 11 has ended with entries kept and
\* samples rejected.
C1_Witness ==
    /\ params = Input(1101004800, 1101004800, 1093664768)
    /\ pc[1] = "done"
    /\ Len(tiles[1]) > 0
    /\ Len(tiles[1]) < iter[1]

C7_FirstEntryCentre ==
    \A w \in DOMAIN pc :
        (Positive(params) /\ params.t < F32Div2(F32Min(params.w, params.h)))
            => /\ pc[w] \in {"render", "done"} => iter[w] >= 1
               /\ iter[w] >= 1 =>
                    /\ Len(tiles[w]) >= 1
                    /\ tiles[w][1] = <<F32Div2(params.w), F32Div2(params.h)>>
                    /\ params = Reference => tiles[w][1] = <<1139802112, 1135869952>>
                    /\ params = Input(1101004800, 1101004800, 1092511334)
                          => tiles[w][1] = <<1092616192, 1092616192>>

\* The run 20 x 20 with tile size 9.9 has ended, and its first entry is
\* (10, 10).
C7_Witness ==
    /\ params = Input(1101004800, 1101004800, 1092511334)
    /\ pc[1] = "done"
    /\ Len(tiles[1]) > 1
    /\ tiles[1][1] = <<1092616192, 1092616192>>

\* C10: for the reference parameters every sample has radius < 360,
\* 120 < x < 840 and 0 < y < 720, and it is left out of the output exactly
\* when y > 710.
C10_BottomEdgeOnly ==
    \A w \in DOMAIN pc :
        (params = Reference /\ Sampling(w)) =>
            LET x == SampleX(params, angle[w], radius[w])
                y == SampleY(params, angle[w], radius[w])
            IN  /\ radius[w] < 1135869952
                /\ 1123024896 < x /\ x < 1146224640
                /\ 0 < y /\ y < 1144258560
                /\ InBounds(params, x, y) <=> ~(y > 1144094720)

\* A sample of the reference run lies below the bottom edge for tiles.
C10_Witness ==
    /\ params = Reference
    /\ Sampling(1)
    /\ SampleY(params, angle[1], radius[1]) > 1144094720
    /\ ~InBounds(params, SampleX(params, angle[1], radius[1]),
                 SampleY(params, angle[1], radius[1]))

\* The worker takes one iteration of the loop in this step.
Iterates(w) == pc[w] = "loop" /\ iter'[w] = iter[w] + 1

\* C3, as claimed: the loop runs at most
\* ceil((min(width, height) / 2) / (tile_size * 0.015)) iterations, which is
\* 2400 for the reference parameters 960 x 720 with tile size 10.
C3_WithinBound ==
    \A w \in DOMAIN pc : params = Reference => iter[w] <= 2400

\* C3, amended: for the reference parameters the loop terminates after
\* exactly 2401 iterations: its condition holds before each of the first
\* 2401 iterations and fails after the 2401st.  For positive inputs in
\* general it need not terminate: when tile_size * 0.015 rounds to 0 the
\* radius stays 0 and the loop is never left.
C3_ReferenceTerminates ==
    \A w \in DOMAIN pc :
        /\ params = Reference =>
              /\ iter[w] <= 2401
              /\ pc[w] \in {"render", "done"} => iter[w] = 2401
              /\ pc[w] = "loop" => (radius[w] < Limit(params) <=> iter[w] < 2401)
        /\ (Positive(params) /\ F32Mul(params.t, RadialGrowth) = 0) =>
              /\ radius[w] = 0
              /\ pc[w] \in {"idle", "loop"}

\* The reference run has ended after 2401 iterations, the last of them
\* entered with radius still below 360.
C3_Witness ==
    /\ params = Reference
    /\ pc[1] = "done"
    /\ iter[1] = 2401
    /\ radius[1] >= Limit(params)

Degenerate(p) == p.w <= 0 \/ p.h <= 0 \/ p.t <= 0

C6_AppendOnly ==
    /\ [](\A w \in DOMAIN pc : Len(tiles[w]) <= iter[w])
    /\ [][\A w \in DOMAIN pc :
            /\ Iterates(w) =>
                  LET x == SampleX(params, angle[w], radius[w])
                      y == SampleY(params, angle[w], radius[w])
                  IN  IF InBounds(params, x, y)
                      THEN tiles'[w] = Append(tiles[w], <<x, y>>)
                      ELSE tiles'[w] = tiles[w]
            /\ (pc[w] # "idle" /\ pc'[w] # "loop") => tiles'[w] = tiles[w]
         ]_vars

\* The sequence holds the same position twice.
C6_Witness ==
    /\ Len(tiles[1]) >= 2
    /\ tiles[1][1] = tiles[1][2]

\* The f32 of a natural number below 2^24.
FromInt(n) == RoundPack(n, 0, FALSE)

\* floor(v * 2^16) for an f32 v with 0 <= v < 2^14.
Fixed16(v) ==
    LET sh == Expo(v) + 16
    IN  IF sh >= 0 THEN Mant(v) * (2 ^ sh)
        ELSE IF sh <= -31 THEN 0 ELSE Mant(v) \div (2 ^ (-sh))

\* C8, as claimed: with tile_size > 0, at the start of iteration k
\* radius = k * (tile_size * 0.015) and angle = k * 0.2 (the products
\* taken in f32, as the code's arithmetic is).
C8_ClosedForm ==
    \A w \in DOMAIN pc :
        (pc[w] = "loop" /\ params.t > 0) =>
            /\ radius[w] = F32Mul(FromInt(iter[w]), F32Mul(params.t, RadialGrowth))
            /\ angle[w] = F32Mul(FromInt(iter[w]), AngularStep)

\* C8, amended: radius and angle start at 0; every iteration, whether or
\* not its sample was appended, replaces radius by the f32 sum
\* radius + tile_size * 0.015 and angle by the f32 sum angle + 0.2; with
\* tile_size > 0 radius never decreases.  The sums are rounded, so the
\* closed forms hold only approximately: in the reference run radius stays
\* within 0.02 of k * 0.15 and angle within 0.02 of k * 0.2.
C8_RoundedGrowth ==
    /\ [](\A w \in DOMAIN pc :
            /\ (pc[w] = "loop" /\ iter[w] = 0) => (radius[w] = 0 /\ angle[w] = 0)
            /\ (pc[w] = "loop" /\ params = Reference) =>
                  /\ Abs(10 * Fixed16(radius[w]) - 98304 * iter[w]) <= 13117
                  /\ Abs(10 * Fixed16(angle[w]) - 131072 * iter[w]) <= 13117)
    /\ [][\A w \in DOMAIN pc :
            Iterates(w) =>
                /\ radius'[w] = F32Add(radius[w], F32Mul(params.t, RadialGrowth))
                /\ angle'[w] = F32Add(angle[w], AngularStep)
                /\ params.t > 0 => radius'[w] >= radius[w]
         ]_vars

\* After an iteration whose sample was left out, radius and angle have
\* advanced, and radius differs from the closed form.
C8_Witness ==
    /\ pc[1] = "loop"
    /\ params.t > 0
    /\ iter[1] >= 1
    /\ Len(tiles[1]) < iter[1]
    /\ radius[1] > 0
    /\ radius[1] # F32Mul(FromInt(iter[1]), F32Mul(params.t, RadialGrowth))

\* h hundredths are exactly the value of the f32 v >= 0.
ExactHundredths(v, h) ==
    LET n  == Mant(v) * 100
        sh == -Expo(v)
    IN  IF sh <= 0 THEN n * (2 ^ (-sh)) = h
        ELSE IF sh >= 31 THEN n = 0 /\ h = 0
        ELSE n % (2 ^ sh) = 0 /\ n \div (2 ^ sh) = h

\* h hundredths are a multiple of 1/100 nearest to the f32 v >= 0.
NearestHundredths(v, h) ==
    LET n  == Mant(v) * 100
        sh == -Expo(v)
        q  == IF sh <= 0 THEN n * (2 ^ (-sh)) ELSE IF sh >= 31 THEN 0 ELSE n \div (2 ^ sh)
        r  == IF sh <= 0 THEN 0 ELSE IF sh >= 31 THEN 0 ELSE n % (2 ^ sh)
    IN  IF sh <= 0 THEN h = q
        ELSE IF sh >= 31 THEN h \in {0, 1}
        ELSE \/ h = q /\ 2 * r <= 2 ^ sh
             \/ h = q + 1 /\ 2 * r >= 2 ^ sh

\* No tile is skipped, merged or doubled, and the order is kept.
OnePerEntry(w) == Len(view[w]) = Len(tiles[w])

\* C9, as claimed: the view holds one tile element per entry, in order,
\* positioned at exactly that entry's (x, y).
C9_ExactOffsets ==
    \A w \in DOMAIN pc :
        pc[w] = "done" =>
            /\ OnePerEntry(w)
            /\ \A i \in 1..Len(tiles[w]) :
                  /\ ExactHundredths(tiles[w][i][1], view[w][i][1])
                  /\ ExactHundredths(tiles[w][i][2], view[w][i][2])

\* C9, amended: the view holds one tile element per entry, in order,
\* positioned at that entry's (x, y) rounded to two decimals (the nearest
\* hundredth, as "{:.2}" prints it).
C9_RoundedOffsets ==
    \A w \in DOMAIN pc :
        pc[w] = "done" =>
            /\ OnePerEntry(w)
            /\ \A i \in 1..Len(tiles[w]) :
                  /\ view[w][i] = <<Fmt2(tiles[w][i][1]), Fmt2(tiles[w][i][2])>>
                  /\ NearestHundredths(tiles[w][i][1], view[w][i][1])
                  /\ NearestHundredths(tiles[w][i][2], view[w][i][2])

\* A run has been rendered: its first tile sits exactly at its entry, its
\* second tile at a rounded position.
C9_Witness ==
    /\ pc[1] = "done"
    /\ Len(tiles[1]) >= 2
    /\ OnePerEntry(1)
    /\ ExactHundredths(tiles[1][1][1], view[1][1][1])
    /\ ~ExactHundredths(tiles[1][2][1], view[1][2][1])

====
